---- MODULE Spec2Model ----
(***************************************************************************)
(* A model of the ArchMM hidden Markov model engine:                       *)
(*   src/archmm/hmm.pyx          HMM, GHMM, GMMHMM, MHMM                   *)
(*   src/ArchMM/Cyfiles/HMM.pyx  BaseHMM (the earlier implementation)      *)
(*   src/archmm/estimation/queue.pyx                                       *)
(*                                                                         *)
(* data_t (a C double) is modelled as an exact rational together with the  *)
(* IEEE special values: nan, +inf, -inf, and +/-DBL_MAX (what              *)
(* np.nan_to_num makes of +/-inf).  Rounding is not modelled.  A value in  *)
(* log space is stored by its exponential: the record of kind "fin" with   *)
(* payload n/d stands for ln(n/d) in a log-space array and for n/d in a    *)
(* linear-space array; elog*/eexp*/np.log/np.exp move a value between the  *)
(* two readings and treat every special value as the C library does.       *)
(* Arrays are indexed from 1: state k of the source is k+1 here, time t    *)
(* is t+1.                                                                 *)
(***************************************************************************)
EXTENDS Integers, Sequences, FiniteSets, TLC

(***************************************************************************)
(* Bounds of the model                                                     *)
(***************************************************************************)
\* numerators and denominators above this leave the modelled range
MaxMagnitude == 30000
\* largest number of hidden states
MaxStates == 3
\* longest sequence
MaxLen == 2
\* largest max_n_iter passed to fit
MaxIter == 2
\* largest number of sequences in a corpus
MaxSeqs == 1
\* largest symbol of a multinomial observation
MaxSymbol == 1
\* mixture components of a GMMHMM
MaxComponents == 1
\* the highest state a label names (states are numbered from 0)
MaxLabel == 0
\* the longest vector handed to elogsum on its own
MaxVec == 3
\* the largest n_samples passed to sample
MaxSamples == 3
\* the largest number of rows of a buffer handed to a backward pass on its own
MaxRows == 3
\* the Queue_Node addresses of the process's memory
MaxNodes == 3
\* the largest data pointer given to enqueue
MaxItem == 2
\* the most calls of enqueue on one queue
MaxEnqueues == 4

(***************************************************************************)
(* Numeric kernel: values                                                  *)
(***************************************************************************)
Abs(x) == IF x < 0 THEN -x ELSE x

RECURSIVE Gcd(_, _)
Gcd(a, b) == IF b = 0 THEN a ELSE Gcd(b, a % b)

Special(kind) == [k |-> kind, n |-> 0, d |-> 1]
NaN == Special("nan")
PInf == Special("pinf")
NInf == Special("ninf")
\* np.nan_to_num(-inf) = -DBL_MAX and np.nan_to_num(+inf) = DBL_MAX
NegMax == Special("nmax")
PosMax == Special("pmax")
\* a value outside the modelled range (see MaxMagnitude)
Ovf == Special("ovf")

\* the rational n/d, d > 0, in lowest terms
MkFin(n, d) ==
    LET g == Gcd(Abs(n), d)
    IN  IF Abs(n) \div g > MaxMagnitude \/ d \div g > MaxMagnitude
        THEN Ovf
        ELSE [k |-> "fin", n |-> n \div g, d |-> d \div g]

\* an array is filled once, when it is built: its elements are values
Array(f) == IF f = f THEN f ELSE <<>>

Zero == [k |-> "fin", n |-> 0, d |-> 1]
One == [k |-> "fin", n |-> 1, d |-> 1]
Int2Val(i) == MkFin(i, 1)

IsFin(a) == a.k = "fin"
IsNaN(a) == a.k = "nan"
IsZero(a) == a.k = "fin" /\ a.n = 0
IsOne(a) == a.k = "fin" /\ a.n = 1 /\ a.d = 1

\* sign of a linear-space value: -1, 0, 1 (nan and ovf have none)
Sign(a) ==
    CASE a.k = "fin" -> (IF a.n > 0 THEN 1 ELSE IF a.n < 0 THEN -1 ELSE 0)
      [] a.k \in {"pinf", "pmax"} -> 1
      [] a.k \in {"ninf", "nmax"} -> -1
      [] OTHER -> 0

(***************************************************************************)
(* Linear-space arithmetic (IEEE 754 on the special values)                *)
(***************************************************************************)
LNeg(a) ==
    CASE a.k = "fin" -> [a EXCEPT !.n = -a.n]
      [] a.k = "pinf" -> NInf
      [] a.k = "ninf" -> PInf
      [] a.k = "pmax" -> NegMax
      [] a.k = "nmax" -> PosMax
      [] OTHER -> a

LAdd(a, b) ==
    CASE a.k = "ovf" \/ b.k = "ovf" -> Ovf
      [] a.k = "nan" \/ b.k = "nan" -> NaN
      [] a.k = "fin" /\ b.k = "fin" -> MkFin(a.n * b.d + b.n * a.d, a.d * b.d)
      [] a.k \in {"pinf", "ninf"} /\ b.k \in {"pinf", "ninf"} ->
            (IF a.k = b.k THEN a ELSE NaN)
      [] a.k \in {"pinf", "ninf"} -> a
      [] b.k \in {"pinf", "ninf"} -> b
      [] a.k \in {"pmax", "nmax"} /\ b.k \in {"pmax", "nmax"} ->
            (IF a.k = b.k THEN (IF a.k = "pmax" THEN PInf ELSE NInf) ELSE Zero)
      [] a.k \in {"pmax", "nmax"} -> a
      [] OTHER -> b

LSub(a, b) == LAdd(a, LNeg(b))

LMul(a, b) ==
    CASE a.k = "ovf" \/ b.k = "ovf" -> Ovf
      [] a.k = "nan" \/ b.k = "nan" -> NaN
      [] a.k = "fin" /\ b.k = "fin" -> MkFin(a.n * b.n, a.d * b.d)
      [] Sign(a) = 0 \/ Sign(b) = 0 ->
            (IF a.k \in {"pinf", "ninf"} \/ b.k \in {"pinf", "ninf"} THEN NaN ELSE Zero)
      [] a.k \in {"pinf", "ninf"} \/ b.k \in {"pinf", "ninf"} ->
            (IF Sign(a) * Sign(b) > 0 THEN PInf ELSE NInf)
      [] OTHER -> Ovf

LDiv(a, b) ==
    CASE a.k = "ovf" \/ b.k = "ovf" -> Ovf
      [] a.k = "nan" \/ b.k = "nan" -> NaN
      [] a.k = "fin" /\ b.k = "fin" ->
            (IF b.n = 0
             THEN (IF a.n = 0 THEN NaN ELSE IF a.n > 0 THEN PInf ELSE NInf)
             ELSE IF b.n > 0 THEN MkFin(a.n * b.d, a.d * b.n)
                  ELSE MkFin(-(a.n * b.d), a.d * (-b.n)))
      [] a.k \in {"pinf", "ninf"} /\ b.k \in {"pinf", "ninf"} -> NaN
      [] a.k \in {"pinf", "ninf"} ->
            (IF Sign(b) >= 0 THEN a ELSE LNeg(a))
      [] b.k \in {"pinf", "ninf"} -> Zero
      [] OTHER -> Ovf

\* a < b on linear-space values; every comparison with nan is false
LLess(a, b) ==
    /\ a.k \notin {"nan", "ovf"}
    /\ b.k \notin {"nan", "ovf"}
    /\ CASE a.k = "fin" /\ b.k = "fin" -> a.n * b.d < b.n * a.d
         [] a.k = "ninf" -> b.k # "ninf"
         [] b.k = "pinf" -> a.k # "pinf"
         [] a.k = "nmax" -> b.k \in {"fin", "pmax"}
         [] b.k = "pmax" -> a.k = "fin"
         [] OTHER -> FALSE

RECURSIVE LSum(_)
\* np.sum / np.dot accumulation over a sequence of values
LSum(s) == IF s = <<>> THEN Zero ELSE LAdd(LSum(SubSeq(s, 1, Len(s) - 1)), s[Len(s)])

(***************************************************************************)
(* Log-space arithmetic.  A "fin" record with payload q stands for ln(q);  *)
(* the log-space value 0.0 is therefore One.                               *)
(***************************************************************************)
\* libc.math.exp: log-space reading to linear-space reading
ExpRaw(a) ==
    CASE a.k = "fin" -> a
      [] a.k \in {"ninf", "nmax"} -> Zero
      [] a.k \in {"pinf", "pmax"} -> PInf
      [] OTHER -> a

\* libc.math.log / np.log: linear-space reading to log-space reading
LogRaw(a) ==
    CASE a.k = "fin" -> (IF a.n > 0 THEN a ELSE IF a.n = 0 THEN NInf ELSE NaN)
      [] a.k = "pinf" -> PInf
      [] a.k = "pmax" -> PosMax
      [] a.k \in {"ninf", "nmax"} -> NaN
      [] OTHER -> a

\* a + b on log-space values
GAdd(a, b) ==
    CASE a.k = "ovf" \/ b.k = "ovf" -> Ovf
      [] a.k = "nan" \/ b.k = "nan" -> NaN
      [] a.k = "fin" /\ b.k = "fin" -> MkFin(a.n * b.n, a.d * b.d)
      [] a.k \in {"pinf", "ninf"} /\ b.k \in {"pinf", "ninf"} ->
            (IF a.k = b.k THEN a ELSE NaN)
      [] a.k \in {"pinf", "ninf"} -> a
      [] b.k \in {"pinf", "ninf"} -> b
      [] a.k \in {"pmax", "nmax"} /\ b.k \in {"pmax", "nmax"} ->
            (IF a.k = b.k THEN (IF a.k = "pmax" THEN PInf ELSE NInf) ELSE One)
      [] a.k \in {"pmax", "nmax"} -> a
      [] OTHER -> b

\* -a on a log-space value
GNeg(a) ==
    CASE a.k = "fin" -> [k |-> "fin", n |-> a.d, d |-> a.n]
      [] a.k = "pinf" -> NInf
      [] a.k = "ninf" -> PInf
      [] a.k = "pmax" -> NegMax
      [] a.k = "nmax" -> PosMax
      [] OTHER -> a

GSub(a, b) == GAdd(a, GNeg(b))

\* a > b on log-space values (ln is increasing, so the payloads decide)
GGreater(a, b) == LLess(b, a)

\* the constants of src/archmm/hmm.pyx:33-35
INF == PInf
LOG_ZERO == GNeg(INF)
ZERO == Zero

RECURSIVE MaxFrom(_, _, _)
MaxFrom(vec, i, best_val) ==
    IF i > Len(vec) THEN best_val
    ELSE MaxFrom(vec, i + 1, IF GGreater(vec[i], best_val) THEN vec[i] ELSE best_val)

\* _max(vec)
max_(vec) == MaxFrom(vec, 1, GNeg(INF))

\* libc.math.isinf
isinf(a) == a.k \in {"pinf", "ninf"}

\* elogsum(vec): stable logarithmic sum of an array
elogsum(vec) ==
    LET v == Array(vec)
        offset == max_(v)
        s == LSum([i \in 1..Len(v) |-> ExpRaw(GSub(v[i], offset))])
    IN  IF isinf(offset) THEN GNeg(INF) ELSE GAdd(LogRaw(s), offset)

\* one element of eexp2d / eexp3d
eexp(x) == IF x # LOG_ZERO THEN ExpRaw(x) ELSE Zero

\* one element of elog1d / elog2d
elog(x) == IF ~IsZero(x) THEN LogRaw(x) ELSE LOG_ZERO

eexp2d(src) == [i \in 1..Len(src) |-> [j \in 1..Len(src[i]) |-> eexp(src[i][j])]]
elog1d(src) == [i \in 1..Len(src) |-> elog(src[i])]
elog2d(src) == [i \in 1..Len(src) |-> [j \in 1..Len(src[i]) |-> elog(src[i][j])]]

\* np.log on a vector / a matrix
NpLog1d(src) == [i \in 1..Len(src) |-> LogRaw(src[i])]
NpLog2d(src) == [i \in 1..Len(src) |-> [j \in 1..Len(src[i]) |-> LogRaw(src[i][j])]]

\* np.nan_to_num on a log-space element: nan -> 0.0, +/-inf -> +/-DBL_MAX
NanToNumLog(a) ==
    CASE a.k = "nan" -> One
      [] a.k = "pinf" -> PosMax
      [] a.k = "ninf" -> NegMax
      [] OTHER -> a

(***************************************************************************)
(* Topology (archmm.topology.Topology, used by HMM.init_topology)          *)
(***************************************************************************)
Archs == {"ergodic", "linear", "cyclic"}

add_edges_everywhere(n) == [i \in 1..n |-> [j \in 1..n |-> TRUE]]
add_self_loops(n) == [i \in 1..n |-> [j \in 1..n |-> i = j]]
\* add_edges(lambda i: i+1) on top of mask m
add_edges_next(m) == [i \in 1..Len(m) |-> [j \in 1..Len(m) |-> m[i][j] \/ j = i + 1]]
\* add_edge(-1, 0) on top of mask m
add_edge_last_first(m) ==
    [i \in 1..Len(m) |-> [j \in 1..Len(m) |-> m[i][j] \/ (i = Len(m) /\ j = 1)]]

init_topology(n_states, arch) ==
    CASE arch = "ergodic" -> add_edges_everywhere(n_states)
      [] arch = "linear" -> add_edges_next(add_self_loops(n_states))
      [] arch = "cyclic" -> add_edge_last_first(add_edges_next(add_self_loops(n_states)))

(***************************************************************************)
(* The model object and the calls in flight                                *)
(***************************************************************************)
VARIABLES
    self,    \* the HMM object: a record of its attributes
    pc,      \* "idle" (constructed), "iterating" (inside baum_welch),
             \* "trained" (fit returned), "failed" (fit raised)
    call,    \* the arguments of the fit call
    bw,      \* the locals of baum_welch
    before,  \* the object as it was when the last M-step began
    ret      \* outcome of the last call other than fit

vars == <<self, pc, call, bw, before, ret>>

Classes == {"GHMM", "GMMHMM", "MHMM"}

Vec(n, v) == [i \in 1..n |-> v]
Mat(n, m, v) == [i \in 1..n |-> [j \in 1..m |-> v]]

RECURSIVE Concat(_)
\* np.concatenate(seqs, axis=0)
Concat(seqs) == IF seqs = <<>> THEN <<>> ELSE Head(seqs) \o Concat(Tail(seqs))

\* the bytes np.empty may hand back: all-zero memory or a nan pattern;
\* read as a linear-space and as a log-space value
Garbage == {"zero", "nan"}
GarbageLin(g) == IF g = "zero" THEN Zero ELSE NaN
GarbageLog(g) == IF g = "zero" THEN One ELSE NaN

\* HMM.__init__
HMM_init(cls, n_states, arch, missing_values, n_components, g) ==
    [ cls |-> cls,
      n_states |-> n_states,
      n_features |-> -1,
      missing_values |-> missing_values,
      ln_initial_probs |-> Vec(n_states, GarbageLog(g)),
      ln_transition_probs |-> Mat(n_states, n_states, GarbageLog(g)),
      initial_probs |-> Vec(n_states, GarbageLin(g)),
      transition_probs |-> Mat(n_states, n_states, GarbageLin(g)),
      transition_mask |-> init_topology(n_states, arch),
      arch |-> arch,
      n_unique |-> 0,
      proba |-> <<>>,
      mu |-> <<>>,
      sigma |-> <<>>,
      weights |-> <<>>,
      n_components |-> IF cls = "GMMHMM" THEN n_components ELSE 0 ]

is_trained(obj) == obj.n_features # -1

(***************************************************************************)
(* Random draws.  The generator state is the seed of the call; a draw is   *)
(* a row of positive weights, normalised by its sum as the callers do.     *)
(***************************************************************************)
Seeds == 1..2

RandWeight(seed, k, j, n) == IF seed = 1 THEN 1 ELSE 1 + ((j + k) % n)

RECURSIVE SumTo(_, _, _, _)
SumTo(seed, k, j, n) == IF j = 0 THEN 0 ELSE RandWeight(seed, k, j, n) + SumTo(seed, k, j - 1, n)

\* row k of np.random.rand(.., n) divided by its sum; also a row of
\* np.random.dirichlet([1.0] * n, ..)
RandRow(seed, k, n) == [j \in 1..n |-> MkFin(RandWeight(seed, k, j, n), SumTo(seed, k, n, n))]

(***************************************************************************)
(* MHMM: multinomial emissions.  An observation is a symbol 0..n_unique-1. *)
(***************************************************************************)
RECURSIVE MaxOf(_)
MaxOf(xs) == IF Len(xs) = 1 THEN xs[1]
             ELSE LET m == MaxOf(Tail(xs)) IN IF xs[1] > m THEN xs[1] ELSE m

\* MHMM.estimate_params
MHMM_estimate_params(obj, X_s, seed) ==
    LET X_concatenated == Concat(X_s)
        n_unique == MaxOf(X_concatenated) + 1
        proba == [k \in 1..obj.n_states |-> RandRow(seed, k, n_unique)]
        initial_probs == RandRow(seed, 0, obj.n_states)
        transition_probs == [k \in 1..obj.n_states |-> RandRow(seed, k, obj.n_states)]
    IN  [obj EXCEPT !.n_unique = n_unique,
                    !.proba = proba,
                    !.initial_probs = initial_probs,
                    !.ln_initial_probs = NpLog1d(initial_probs),
                    !.transition_probs = transition_probs,
                    !.ln_transition_probs = NpLog2d(transition_probs)]

\* MHMM.emission_log_proba
MHMM_emission_log_proba(obj, X) ==
    Array([t \in 1..Len(X) |-> [k \in 1..obj.n_states |-> LogRaw(obj.proba[k][X[t] + 1])]])

\* MHMM.nan_to_zeros applied to proba
MHMM_nan_to_zeros(proba) ==
    [k \in 1..Len(proba) |-> [i \in 1..Len(proba[k]) |->
        IF IsNaN(proba[k][i]) THEN ZERO ELSE proba[k][i]]]

\* np.dot(posteriors, X == i)
DotIndicator(posteriors, X, i) ==
    LSum([t \in 1..Len(X) |-> IF X[t] = i THEN posteriors[t] ELSE Zero])

\* the table the loop of MHMM.update_emission_params writes (lines
\* 1026-1031); the leading nan_to_zeros() cleans entries it overwrites
MHMM_reestimate(obj, X, gamma) ==
    LET row(k) ==
            LET posteriors == Array([t \in 1..Len(X) |-> gamma[t][k]])
                post_sum == LSum(posteriors)
                norm == IF ~IsZero(post_sum) THEN LDiv(One, post_sum) ELSE One
            IN  [i \in 1..obj.n_unique |-> LMul(DotIndicator(posteriors, X, i - 1), norm)]
    IN  Array([k \in 1..obj.n_states |-> row(k)])

\* MHMM.update_emission_params
MHMM_update_emission_params(obj, X, gamma) ==
    [obj EXCEPT !.proba = Array(MHMM_nan_to_zeros(MHMM_reestimate(obj, X, gamma)))]

(***************************************************************************)
(* Gaussian emissions (GHMM, GMMHMM).  An observation is a row of          *)
(* n_features values.                                                      *)
(***************************************************************************)
HasNaN1(v) == \E j \in 1..Len(v) : IsNaN(v[j])
HasNaN2(m) == \E i \in 1..Len(m) : HasNaN1(m[i])

\* X[~np.any(np.isnan(X), axis=1)]
RECURSIVE Observed(_)
Observed(X) ==
    IF X = <<>> THEN <<>>
    ELSE (IF HasNaN1(Head(X)) THEN <<>> ELSE <<Head(X)>>) \o Observed(Tail(X))

\* X[indices == c]
RECURSIVE Members(_, _, _)
Members(X, indices, c) ==
    IF X = <<>> THEN <<>>
    ELSE (IF Head(indices) = c THEN <<Head(X)>> ELSE <<>>) \o Members(Tail(X), Tail(indices), c)

\* np.mean(pts, axis=0)[j]
ColMean(pts, j) == LDiv(LSum([t \in 1..Len(pts) |-> pts[t][j]]), Int2Val(Len(pts)))

\* np.cov(pts.T) for rows of D features: the factor is 1 / max(n - 1, 0)
np_cov(pts, D) ==
    LET n == Len(pts)
        fact == IF n > 1 THEN n - 1 ELSE 0
        avg == Array([j \in 1..D |-> ColMean(pts, j)])
    IN  Array([j \in 1..D |-> [l \in 1..D |->
            LMul(LSum([t \in 1..n |-> LMul(LSub(pts[t][j], avg[j]), LSub(pts[t][l], avg[l]))]),
                 LDiv(One, Int2Val(fact)))]])

\* the cluster a run of k-means leaves point t in, before empty clusters
\* are filled: alternating for seed 1, in blocks of two for seed 2
KMeansBase(seed, t, k) == IF seed = 1 THEN (t - 1) % k ELSE ((t - 1) \div 2) % k

SetMax(S) == CHOOSE m \in S : \A x \in S : x <= m

\* KMeans(k).fit(X) on data without nan: (centroids, labels).  An empty
\* cluster receives one randomly drawn point (perform_step), whose label
\* is overwritten by the cluster of highest index holding it (get_labels)
KMeans_fit(X, k, seed) ==
    LET n == Len(X)
        D == Len(X[1])
        base == Array([t \in 1..n |-> KMeansBase(seed, t, k)])
        empty(c) == \A t \in 1..n : base[t] # c
        filler(c) == ((seed + c) % n) + 1
        labels == [t \in 1..n |->
                    LET picks == {c \in 0..(k - 1) : empty(c) /\ filler(c) = t}
                    IN  IF picks = {} THEN base[t] ELSE SetMax(picks)]
        centroids == [i \in 1..k |->
                    IF empty(i - 1) THEN X[filler(i - 1)]
                    ELSE LET pts == Members(X, base, i - 1)
                         IN  [j \in 1..D |-> ColMean(pts, j)]]
    IN  [centroids |-> Array(centroids), labels |-> Array(labels)]

\* a call of KMeans.fit fails on an empty data set (np.random.randint(0, 0))
\* and on data holding a nan (no run has a cost below best_cost)
KMeans_fails(X) == X = <<>> \/ HasNaN2(X)

\* archmm.stats.gaussian_log_proba(X, mu, sigma): log-density of every row.
\* A density with its peak at the mean: ln(1) at the mean and ln(1/2) away
\* from it; a nan in the row or in the parameters gives nan
Half == [k |-> "fin", n |-> 1, d |-> 2]
gaussian_log_proba(X, mu, sigma) ==
    [t \in 1..Len(X) |->
        IF HasNaN1(X[t]) \/ HasNaN1(mu) \/ HasNaN2(sigma) THEN NaN
        ELSE IF X[t] = mu THEN LogRaw(One) ELSE LogRaw(Half)]

nan_to_zero(x) == IF IsNaN(x) THEN ZERO ELSE x
nan_to_zeros2(m) == [i \in 1..Len(m) |-> [j \in 1..Len(m[i]) |-> nan_to_zero(m[i][j])]]
nan_to_zeros3(c) == [i \in 1..Len(c) |-> nan_to_zeros2(c[i])]
nan_to_zeros4(c) == [i \in 1..Len(c) |-> nan_to_zeros3(c[i])]

\* GHMM.estimate_params: the object it leaves and whether it returned
GHMM_estimate_params(obj, X_s, seed, g) ==
    LET D == obj.n_features
        empty == [obj EXCEPT !.mu = Mat(obj.n_states, D, GarbageLin(g)),
                             !.sigma = [k \in 1..obj.n_states |-> Mat(D, D, GarbageLin(g))]]
        X_concatenated == Concat(X_s)
    IN  IF obj.arch # "ergodic" \/ KMeans_fails(X_concatenated)
        THEN [ok |-> FALSE, obj |-> empty]
        ELSE LET km == KMeans_fit(X_concatenated, obj.n_states, seed)
                 initial_probs == Vec(obj.n_states, LDiv(One, Int2Val(obj.n_states)))
                 transition_probs == [k \in 1..obj.n_states |-> RandRow(seed, k, obj.n_states)]
             IN  [ok |-> TRUE,
                  obj |-> [obj EXCEPT
                     !.mu = km.centroids,
                     !.sigma = [i \in 1..obj.n_states |->
                                   np_cov(Members(X_concatenated, km.labels, i - 1), D)],
                     !.initial_probs = initial_probs,
                     !.transition_probs = transition_probs,
                     !.ln_initial_probs = NpLog1d(initial_probs),
                     !.ln_transition_probs = NpLog2d(transition_probs)]]

\* GHMM.emission_log_proba
GHMM_emission_log_proba(obj, X) ==
    LET col == Array([k \in 1..obj.n_states |-> gaussian_log_proba(X, obj.mu[k], obj.sigma[k])])
    IN  Array([t \in 1..Len(X) |-> [k \in 1..obj.n_states |-> col[k][t]]])

\* the weighted sums of one state in update_emission_params: sigma from the
\* differences to the old mean, mu from the normalised weighted sum
WeightedSigma(X, mu_k, posteriors, D) ==
    [j \in 1..D |-> [l \in 1..D |->
        LSum([t \in 1..Len(X) |->
                LMul(LMul(LSub(X[t][j], mu_k[j]), LSub(X[t][l], mu_k[l])), posteriors[t])])]]

WeightedMu(X, posteriors, D) ==
    LET post_sum == LSum(posteriors)
        norm == IF ~IsZero(post_sum) THEN LDiv(One, post_sum) ELSE One
    IN  [j \in 1..D |-> LMul(LSum([t \in 1..Len(X) |-> LMul(posteriors[t], X[t][j])]), norm)]

\* the arrays the loop of GHMM.update_emission_params writes (lines
\* 765-784), after the leading nan_to_zeros()
GHMM_reestimate(obj, X, gamma) ==
    LET D == obj.n_features
        mu == Array(nan_to_zeros2(obj.mu))
        post(k) == Array([t \in 1..Len(X) |-> gamma[t][k]])
    IN  [sigma |-> Array([k \in 1..obj.n_states |-> WeightedSigma(X, mu[k], post(k), D)]),
         mu |-> Array([k \in 1..obj.n_states |-> WeightedMu(X, post(k), D)])]

\* GHMM.update_emission_params
GHMM_update_emission_params(obj, X, gamma) ==
    LET new == GHMM_reestimate(obj, X, gamma)
    IN  [obj EXCEPT !.sigma = Array(nan_to_zeros3(new.sigma)),
                    !.mu = Array(nan_to_zeros2(new.mu))]

\* GMMHMM.estimate_params: the object it leaves and whether it returned.
\* The log mirrors are not assigned: they keep what __init__ left in them
GMMHMM_estimate_params(obj, X_s, seed, g) ==
    LET D == obj.n_features
        C == obj.n_components
        N == obj.n_states
        empty == [obj EXCEPT
                    !.weights = Mat(N, C, GarbageLin(g)),
                    !.mu = [k \in 1..N |-> Mat(C, D, GarbageLin(g))],
                    !.sigma = [k \in 1..N |-> [c \in 1..C |-> Mat(D, D, GarbageLin(g))]]]
        X_concatenated == Concat(X_s)
    IN  IF KMeans_fails(X_concatenated)
        THEN [ok |-> FALSE, obj |-> empty]
        ELSE LET km == KMeans_fit(X_concatenated, N, seed)
                 cluster == Array([i \in 1..N |-> Members(X_concatenated, km.labels, i - 1)])
             IN  IF \E i \in 1..N : KMeans_fails(cluster[i])
                 THEN [ok |-> FALSE, obj |-> empty]
                 ELSE LET sub == Array([i \in 1..N |-> KMeans_fit(cluster[i], C, seed)])
                          \* len(tmp), then weights[i, c] + np.sum(weights[i, c])
                          w == LAdd(Int2Val(D), LSum(<<Int2Val(D)>>))
                      IN  [ok |-> TRUE,
                           obj |-> [obj EXCEPT
                              !.mu = [i \in 1..N |-> sub[i].centroids],
                              !.sigma = [i \in 1..N |-> [c \in 1..C |->
                                  np_cov(Members(cluster[i], sub[i].labels, c - 1), D)]],
                              !.weights = Mat(N, C, w),
                              !.initial_probs = Vec(N, LDiv(One, Int2Val(N))),
                              !.transition_probs = [k \in 1..N |-> RandRow(seed, k, N)]]]

\* GMMHMM.emission_log_proba
GMMHMM_emission_log_proba(obj, X) ==
    LET by_component(k) ==
            Array([c \in 1..obj.n_components |->
                LET lnf_c == gaussian_log_proba(X, obj.mu[k][c], obj.sigma[k][c])
                IN  [t \in 1..Len(X) |-> GAdd(lnf_c[t], LogRaw(obj.weights[k][c]))]])
        col == Array([k \in 1..obj.n_states |->
                LET lnf_by_component == by_component(k)
                IN  [t \in 1..Len(X) |->
                        elogsum([c \in 1..obj.n_components |-> lnf_by_component[c][t]])]])
    IN  Array([t \in 1..Len(X) |-> [k \in 1..obj.n_states |-> col[k][t]]])

\* GMMHMM.update_emission_params
GMMHMM_update_emission_params(obj, X, gamma) ==
    LET D == obj.n_features
        weights == Array(nan_to_zeros2(obj.weights))
        mu == Array(nan_to_zeros3(obj.mu))
        post(k, c) == Array([t \in 1..Len(X) |-> LMul(gamma[t][k], weights[k][c])])
    IN  [obj EXCEPT
           !.sigma = Array(nan_to_zeros4([k \in 1..obj.n_states |-> [c \in 1..obj.n_components |->
                                    WeightedSigma(X, mu[k][c], post(k, c), D)]])),
           !.mu = Array(nan_to_zeros3([k \in 1..obj.n_states |-> [c \in 1..obj.n_components |->
                                    WeightedMu(X, post(k, c), D)]])),
           !.weights = Array(nan_to_zeros2([k \in 1..obj.n_states |-> [c \in 1..obj.n_components |->
                                    LDiv(LSum(post(k, c)),
                                         LSum([t \in 1..Len(X) |-> gamma[t][k]]))]]))]

(***************************************************************************)
(* Forward-backward (HMM.forward, HMM.backward, HMM.e_step)                *)
(***************************************************************************)
\* HMM.compute_ln_phi
compute_ln_phi(obj) == obj.ln_transition_probs

\* the rows ln_alpha[0..t-1] written by HMM.forward
RECURSIVE forward(_, _, _)
forward(obj, lnf, t) ==
    IF t = 1
    THEN << Array([i \in 1..obj.n_states |-> GAdd(obj.ln_initial_probs[i], lnf[1][i])]) >>
    ELSE LET ln_alpha == forward(obj, lnf, t - 1)
             ln_phi == compute_ln_phi(obj)
             tmp(j) == [i \in 1..obj.n_states |-> GAdd(ln_alpha[t - 1][i], ln_phi[i][j])]
         IN  Append(ln_alpha,
                    Array([j \in 1..obj.n_states |-> GAdd(elogsum(tmp(j)), lnf[t][j])]))

\* the rows ln_beta[t-1..T-1] written by HMM.backward, first row first
RECURSIVE backward(_, _, _)
backward(obj, lnf, t) ==
    IF t = Len(lnf)
    THEN << [i \in 1..obj.n_states |-> One] >>
    ELSE LET rest == backward(obj, lnf, t + 1)
             ln_phi == compute_ln_phi(obj)
             tmp(i) == [j \in 1..obj.n_states |->
                          GAdd(GAdd(ln_phi[i][j], rest[1][j]), lnf[t + 1][j])]
         IN  << Array([i \in 1..obj.n_states |-> elogsum(tmp(i))]) >> \o rest

\* the sum over the first row of ln_beta and lnf alone
backward_lnP_without_initial_probs(obj, lnf, ln_beta) ==
    elogsum([i \in 1..obj.n_states |-> GAdd(ln_beta[1][i], lnf[1][i])])

\* the value HMM.backward returns
backward_lnP(obj, lnf, ln_beta) ==
    elogsum([i \in 1..obj.n_states |->
                GAdd(GAdd(ln_beta[1][i], lnf[1][i]), obj.ln_initial_probs[i])])

\* line 432 of HMM.e_step: the two values are not compared (a TODO stands
\* in the place of the check), and nothing is reported
e_step_warnings(lnP_f, lnP_b) == {}

\* lines 434-449 of HMM.e_step: ln_xi and ln_gamma from the two buffers and
\* the two log-likelihoods
e_step_posteriors(obj, lnf, ln_alpha, ln_beta, lnP_f, lnP_b) ==
    LET n_samples == Len(lnf)
        ln_phi == compute_ln_phi(obj)
        ln_xi == Array([t \in 1..n_samples |-> [i \in 1..obj.n_states |-> [j \in 1..obj.n_states |->
                    IF t = 1
                    THEN GSub(GAdd(GAdd(obj.ln_initial_probs[i], lnf[1][j]), ln_beta[1][j]), lnP_f)
                    ELSE GSub(GAdd(GAdd(GAdd(ln_alpha[t - 1][i], ln_phi[i][j]),
                                        lnf[t][j]), ln_beta[t][j]), lnP_f)]]])
        ln_gamma == Array([t \in 1..n_samples |-> [i \in 1..obj.n_states |->
                    GSub(GAdd(ln_alpha[t][i], ln_beta[t][i]), lnP_f)]])
    IN  [lnP_f |-> lnP_f, lnP_b |-> lnP_b, ln_alpha |-> ln_alpha, ln_beta |-> ln_beta,
         ln_gamma |-> ln_gamma, ln_xi |-> ln_xi, warnings |-> e_step_warnings(lnP_f, lnP_b)]

\* lines 430-431 of HMM.e_step: the values forward and backward return
e_step_likelihoods(obj, lnf, ln_alpha, ln_beta) ==
    e_step_posteriors(obj, lnf, ln_alpha, ln_beta,
                      elogsum(ln_alpha[Len(lnf)]), backward_lnP(obj, lnf, ln_beta))

\* HMM.e_step: the buffers it fills and the log-likelihood it returns
e_step(obj, lnf) ==
    e_step_likelihoods(obj, lnf, forward(obj, lnf, Len(lnf)), backward(obj, lnf, 1))

(***************************************************************************)
(* Emission dispatch (the abstract methods of HMM)                         *)
(***************************************************************************)
emission_log_proba(obj, X) ==
    CASE obj.cls = "MHMM" -> MHMM_emission_log_proba(obj, X)
      [] obj.cls = "GHMM" -> GHMM_emission_log_proba(obj, X)
      [] obj.cls = "GMMHMM" -> GMMHMM_emission_log_proba(obj, X)

update_emission_params(obj, X, gamma) ==
    CASE obj.cls = "MHMM" -> MHMM_update_emission_params(obj, X, gamma)
      [] obj.cls = "GHMM" -> GHMM_update_emission_params(obj, X, gamma)
      [] obj.cls = "GMMHMM" -> GMMHMM_update_emission_params(obj, X, gamma)

\* a row of X holds a nan (np.any(np.isnan(X), axis=1))
RowHasNaN(obj, x) == obj.cls # "MHMM" /\ HasNaN1(x)

\* lines 290-292: the rows of the observed timesteps are those computed for
\* X[observed], in their order; the rows of the other timesteps are 0.0
ScatterObserved(obj, X, rows) ==
    [t \in 1..Len(X) |->
        IF RowHasNaN(obj, X[t])
        THEN [k \in 1..obj.n_states |-> One]
        ELSE rows[Cardinality({u \in 1..t : ~RowHasNaN(obj, X[u])})]]

\* the emission model applied to every row, missing or not
emission_log_proba_without_nan_support(obj, X) == emission_log_proba(obj, X)

\* HMM.emission_log_proba_with_nan_support
emission_log_proba_with_nan_support(obj, X) ==
    IF ~obj.missing_values
    THEN emission_log_proba(obj, X)
    ELSE ScatterObserved(obj, X, Array(emission_log_proba(obj, Observed(X))))

(***************************************************************************)
(* HMM.baum_welch                                                          *)
(***************************************************************************)
NoLabels == <<>>

\* old_F = 1.0e20, and F - 1.0e20 for a finite F
BigF == Special("1e20")
MinusBigF == Special("-1e20")

\* eps as passed by the caller: the default 1e-04, or 1
EpsDefault == [k |-> "fin", n |-> 1, d |-> 10000]
EpsValues == {EpsDefault, One}

\* <long>eps
LongCast(eps) == eps.n \div eps.d

\* q < e, for a payload q: 25946/9545 < e < 49171/18089 are neighbouring
\* convergents of e, so no q with a denominator below 27634 lies between
BelowE(q) == q.n * 9545 <= 25946 * q.d
AboveE(q) == q.n * 18089 >= 49171 * q.d
DecidableE(q) == BelowE(q) \/ AboveE(q)

\* dF = F - old_F
DeltaF(F, old_F) ==
    IF old_F = BigF
    THEN (IF F.k = "fin" THEN MinusBigF ELSE F)
    ELSE GSub(F, old_F)

\* np.abs(dF) < L for an integer L in {0, 1}
AbsBelowLong(dF, L) ==
    /\ L >= 1
    /\ dF.k = "fin"
    /\ BelowE(dF)
    /\ BelowE(GNeg(dF))

\* np.sum(lnP_s)
RECURSIVE SumLog(_)
SumLog(s) == IF s = <<>> THEN One ELSE GAdd(SumLog(SubSeq(s, 1, Len(s) - 1)), s[Len(s)])

OneHot(n, y) == [k \in 1..n |-> IF k = y + 1 THEN One ELSE Zero]

\* gamma_s after lines 485-493: exponentiated, labelled rows forced one-hot
Posteriors(obj, ln_gamma_s, Y_s) ==
    Array([p \in 1..Len(ln_gamma_s) |->
        LET gamma == eexp2d(ln_gamma_s[p])
        IN  [t \in 1..Len(gamma) |->
                IF Y_s # NoLabels /\ Y_s[p][t] >= 0
                THEN OneHot(obj.n_states, Y_s[p][t])
                ELSE gamma[t]]])

\* start probabilities taken from the first sequence alone
StartProbsOfFirstSequence(obj, gamma_s) ==
    [k \in 1..obj.n_states |-> LDiv(gamma_s[1][1][k], LSum(gamma_s[1][1]))]

\* lines 495-500: state start probabilities
StartProbs(obj, gamma_s) ==
    LET acc == Array([k \in 1..obj.n_states |->
                        LSum([p \in 1..Len(gamma_s) |-> gamma_s[p][1][k]])])
        total == LSum(acc)
    IN  [k \in 1..obj.n_states |-> LDiv(acc[k], total)]

\* the rows of gamma the transition update divides by: ln_gamma_s[p][:-1]
TransitionRows(ln_gamma) == [t \in 1..(Len(ln_gamma) - 1) |-> ln_gamma[t]]

\* lines 503-512: logarithm of the state transition probabilities
LnTransitions(obj, ln_gamma_s, ln_xi_s) ==
    [k \in 1..obj.n_states |-> [l \in 1..obj.n_states |->
        IF obj.transition_mask[k][l]
        THEN LET num == Concat([p \in 1..Len(ln_xi_s) |->
                            [t \in 1..(Len(ln_xi_s[p]) - 1) |-> ln_xi_s[p][t + 1][k][l]]])
                 den == Concat([p \in 1..Len(ln_gamma_s) |->
                            LET rows == TransitionRows(ln_gamma_s[p])
                            IN  [t \in 1..Len(rows) |-> rows[t][k]]])
             IN  GSub(elogsum(num), elogsum(den))
        ELSE LOG_ZERO]]

\* lines 514-517: nan_to_num, exponentiate, clear nans, normalise the rows
Transitions(ln_transition_probs) ==
    LET raw == eexp2d(ln_transition_probs)
        clean == Array([k \in 1..Len(raw) |-> [l \in 1..Len(raw[k]) |->
                    IF IsNaN(raw[k][l]) THEN ZERO ELSE raw[k][l]]])
    IN  [k \in 1..Len(clean) |-> [l \in 1..Len(clean[k]) |->
            LDiv(clean[k][l], LSum(clean[k]))]]

\* np.nan_to_num of a matrix of logarithms (line 514)
NanToNumLog2(m) == Array([k \in 1..Len(m) |-> [l \in 1..Len(m[k]) |-> NanToNumLog(m[k][l])]])

\* lines 495-517: the four arrays of the object after the update of the
\* start and transition probabilities
UpdatedProbs(obj, initial_probs, ln_transition_probs) ==
    [obj EXCEPT !.initial_probs = Array(initial_probs),
                !.ln_initial_probs = elog1d(initial_probs),
                !.ln_transition_probs = ln_transition_probs,
                !.transition_probs = Transitions(ln_transition_probs)]

\* the M-step of one iteration (lines 484-522)
m_step(obj, X_s, gamma_s, ln_gamma_s, ln_xi_s) ==
    update_emission_params(
        UpdatedProbs(obj, StartProbs(obj, gamma_s),
                     NanToNumLog2(LnTransitions(obj, ln_gamma_s, ln_xi_s))),
        Concat(X_s), Concat(gamma_s))

(***************************************************************************)
(* The modelled range: no value of the object or of the buffers left it    *)
(***************************************************************************)
InRange1(v) == \A i \in 1..Len(v) : v[i].k # "ovf"
InRange2(m) == \A i \in 1..Len(m) : InRange1(m[i])
InRange3(c) == \A i \in 1..Len(c) : InRange2(c[i])
InRange4(c) == \A i \in 1..Len(c) : InRange3(c[i])

Representable(obj) ==
    /\ InRange1(obj.initial_probs) /\ InRange1(obj.ln_initial_probs)
    /\ InRange2(obj.transition_probs) /\ InRange2(obj.ln_transition_probs)
    /\ CASE obj.cls = "MHMM" -> InRange2(obj.proba)
         [] obj.cls = "GHMM" -> InRange2(obj.mu) /\ InRange3(obj.sigma)
         [] obj.cls = "GMMHMM" ->
                InRange3(obj.mu) /\ InRange4(obj.sigma) /\ InRange2(obj.weights)

RepresentableE(E) ==
    \A p \in 1..Len(E) :
        /\ E[p].lnP_f.k # "ovf" /\ E[p].lnP_b.k # "ovf"
        /\ InRange2(E[p].ln_alpha) /\ InRange2(E[p].ln_beta)
        /\ InRange2(E[p].ln_gamma) /\ InRange3(E[p].ln_xi)

(***************************************************************************)
(* Inputs                                                                  *)
(***************************************************************************)
Symbols == 0..MaxSymbol

SeqsOver(S) == UNION {[1..T -> S] : T \in 1..MaxLen}
CorporaOver(S) == UNION {[1..n -> SeqsOver(S)] : n \in 1..MaxSeqs}

\* rows of two features, one of them with a missing value
Row(a, b) == <<Int2Val(a), Int2Val(b)>>
Rows == {Row(1, 1)}
MissingRow == <<NaN, Zero>>
\* four rows, enough for two clusters of two points, and the same with a
\* missing value at the end
LongCorpus == << <<Row(0, 0), Row(1, 0), Row(0, 1), Row(1, 1)>> >>
LongCorpusMissing == << <<Row(0, 0), Row(1, 0), Row(0, 1), Row(1, 1), MissingRow>> >>

\* the corpora given to fit; the two long ones go to models of two states
Corpora(obj) ==
    CASE obj.cls = "MHMM" -> CorporaOver(Symbols)
      [] OTHER -> CorporaOver(Rows \cup {MissingRow}) \cup
                  (IF obj.n_states = 2 THEN {LongCorpus, LongCorpusMissing} ELSE {})

\* y: None, or one label in -1..MaxLabel for every timestep
LabelsFor(obj, X_s) ==
    {NoLabels} \cup
    {Y_s \in [1..Len(X_s) -> UNION {[1..T -> -1..MaxLabel] : T \in 1..MaxLen}] :
        \A p \in 1..Len(X_s) : Len(Y_s[p]) = Len(X_s[p])}

\* check_hmm_sequences_list: the feature width of the corpus
FeatureWidth(obj, X_s) == IF obj.cls = "MHMM" THEN 1 ELSE Len(X_s[1][1])

\* estimate_params of the object's class: the object it leaves, and whether
\* it returned (ok) or raised
estimate_params(obj, X_s, seed, g) ==
    CASE obj.cls = "MHMM" -> [ok |-> TRUE, obj |-> MHMM_estimate_params(obj, X_s, seed)]
      [] obj.cls = "GHMM" -> GHMM_estimate_params(obj, X_s, seed, g)
      [] obj.cls = "GMMHMM" -> GMMHMM_estimate_params(obj, X_s, seed, g)

\* the sequences fit hands to estimate_params (lines 531-534)
EstimationData(obj, X_s) ==
    IF ~obj.missing_values THEN X_s ELSE [p \in 1..Len(X_s) |-> Observed(X_s[p])]

(***************************************************************************)
(* Actions                                                                 *)
(***************************************************************************)
NoCall == [X_s |-> <<>>, Y_s |-> NoLabels, max_n_iter |-> 0, eps |-> EpsDefault]
NoLocals ==
    [i |-> 0, old_F |-> BigF, F |-> BigF, E |-> <<>>, lnf_s |-> <<>>, gamma_s |-> <<>>,
     m_steps |-> 0]
NoRet == [op |-> "none", outcome |-> "none", value |-> <<>>]

Init ==
    /\ \E cls \in Classes, n_states \in 2..MaxStates, arch \in Archs, g \in Garbage,
          missing_values \in BOOLEAN, n_components \in 1..MaxComponents :
          /\ cls = "MHMM" => ~missing_values
          /\ self = HMM_init(cls, n_states, arch, missing_values, n_components, g)
    /\ pc = "idle"
    /\ call = NoCall
    /\ bw = NoLocals
    /\ before = self
    /\ ret = NoRet

\* check_hmm_sequences_list accepts the corpus: it holds a sequence
ValidCorpus(X_s) == Len(X_s) > 0

\* fit whose first line assigns n_features before the corpus is validated
FitInitializeAssigningFirst(X_s, seed, g, labels, limits, tolerances) ==
    /\ pc \in {"idle", "trained"}
    /\ ~ValidCorpus(X_s)
    /\ self' = [self EXCEPT !.n_features = 0]
    /\ ret' = [op |-> "fit", outcome |-> "ValidationError", value |-> <<>>]
    /\ UNCHANGED <<pc, call, bw, before>>

\* HMM.fit up to the call of baum_welch (lines 525-534), and the first
\* lines of baum_welch (452-466).  The labels, the iteration limit and the
\* tolerance of the call are drawn from the sets given.  A corpus that
\* check_hmm_sequences_list rejects ends the call on line 525, before
\* n_features is assigned
FitInitialize(X_s, seed, g, labels, limits, tolerances) ==
    /\ pc \in {"idle", "trained"}
    /\ IF ~ValidCorpus(X_s)
       THEN /\ ret' = [op |-> "fit", outcome |-> "ValidationError", value |-> <<>>]
            /\ UNCHANGED <<self, pc, call, bw, before>>
       ELSE /\ \E est \in {estimate_params([self EXCEPT !.n_features = FeatureWidth(self, X_s)],
                                          EstimationData(self, X_s), seed, g)} :
                   /\ Representable(est.obj)
                   /\ self' = est.obj
                   /\ before' = est.obj
                   /\ IF est.ok
                      THEN /\ pc' = "iterating"
                           /\ \E Y_s \in labels, max_n_iter \in limits, eps \in tolerances :
                                  call' = [X_s |-> X_s, Y_s |-> Y_s,
                                           max_n_iter |-> max_n_iter, eps |-> eps]
                      ELSE /\ pc' = "failed"
                           /\ call' = NoCall
            /\ bw' = NoLocals
            /\ UNCHANGED ret

\* lines 484-522 for the buffers E of the E-steps and the cost F
loop_m_step(obj, X_s, Y_s, old_F, lnf_s, E, F, gamma_s) ==
    [lnf_s |-> lnf_s, E |-> E, F |-> F, dF |-> DeltaF(F, old_F), gamma_s |-> gamma_s,
     updated |-> m_step(obj, X_s, gamma_s,
                        [p \in 1..Len(E) |-> E[p].ln_gamma],
                        [p \in 1..Len(E) |-> E[p].ln_xi])]

\* lines 475-493: the cost F and the posteriors gamma_s
loop_cost(obj, X_s, Y_s, old_F, lnf_s, E) ==
    loop_m_step(obj, X_s, Y_s, old_F, lnf_s, E,
                GNeg(SumLog([p \in 1..Len(E) |-> E[p].lnP_f])),
                Posteriors(obj, [p \in 1..Len(E) |-> E[p].ln_gamma], Y_s))

\* lines 469-473: the E-step on every sequence
loop_e_steps(obj, X_s, Y_s, old_F, lnf_s) ==
    loop_cost(obj, X_s, Y_s, old_F, lnf_s,
              Array([p \in 1..Len(X_s) |-> e_step(obj, lnf_s[p])]))

\* the body of the loop of baum_welch (lines 467-522) for one value of i:
\* the E-step on every sequence, the convergence check and the M-step
\* that follows when the loop does not break
loop_body(obj, X_s, Y_s, eps, old_F) ==
    loop_e_steps(obj, X_s, Y_s, old_F,
                 Array([p \in 1..Len(X_s) |->
                          emission_log_proba_with_nan_support(obj, X_s[p])]))

\* the values of the iteration stay in the modelled range, and the test of
\* line 479 is decided by the bounds on e
IterationInRange(it, eps) ==
    /\ RepresentableE(it.E)
    /\ it.dF.k # "ovf"
    /\ it.dF.k = "fin" => DecidableE(it.dF) /\ DecidableE(GNeg(it.dF))
    /\ AbsBelowLong(it.dF, LongCast(eps)) \/ Representable(it.updated)

\* an iteration that runs its M-step before it leaves the loop
BaumWelchIterationUpdatingOnBreak ==
    /\ pc = "iterating"
    /\ bw.i < call.max_n_iter
    /\ \E it \in {loop_body(self, call.X_s, call.Y_s, call.eps, bw.old_F)} :
           /\ IterationInRange(it, call.eps)
           /\ Representable(it.updated)
           /\ self' = it.updated
           /\ before' = self
           /\ IF AbsBelowLong(it.dF, LongCast(call.eps))
              THEN /\ pc' = "trained"
                   /\ bw' = [bw EXCEPT !.F = it.F, !.E = it.E, !.lnf_s = it.lnf_s]
              ELSE /\ bw' = [i |-> bw.i + 1, old_F |-> it.F, F |-> it.F, E |-> it.E,
                             lnf_s |-> it.lnf_s,
                             gamma_s |-> it.gamma_s, m_steps |-> bw.m_steps + 1]
                   /\ UNCHANGED pc
    /\ UNCHANGED <<call, ret>>

BaumWelchIteration ==
    /\ pc = "iterating"
    /\ bw.i < call.max_n_iter
    /\ \E it \in {loop_body(self, call.X_s, call.Y_s, call.eps, bw.old_F)} :
           /\ IterationInRange(it, call.eps)
           /\ IF AbsBelowLong(it.dF, LongCast(call.eps))
              THEN /\ pc' = "trained"
                   /\ bw' = [bw EXCEPT !.F = it.F, !.E = it.E, !.lnf_s = it.lnf_s]
                   /\ UNCHANGED <<self, before>>
              ELSE /\ self' = it.updated
                   /\ before' = self
                   /\ bw' = [i |-> bw.i + 1, old_F |-> it.F, F |-> it.F, E |-> it.E,
                             lnf_s |-> it.lnf_s,
                             gamma_s |-> it.gamma_s, m_steps |-> bw.m_steps + 1]
                   /\ UNCHANGED pc
    /\ UNCHANGED <<call, ret>>

\* a loop that starts over when its counter reaches max_n_iter
BaumWelchStartOver ==
    /\ pc = "iterating"
    /\ bw.i = call.max_n_iter
    /\ bw' = [bw EXCEPT !.i = 0]
    /\ UNCHANGED <<self, pc, call, before, ret>>

\* the loop of baum_welch ran max_n_iter times: baum_welch and fit return
BaumWelchReturn ==
    /\ pc = "iterating"
    /\ bw.i = call.max_n_iter
    /\ pc' = "trained"
    /\ UNCHANGED <<self, call, bw, before, ret>>

(***************************************************************************)
(* Calls on a constructed or trained object                                *)
(***************************************************************************)
\* HMM.log_likelihood(X, y): (lnP, gamma); with labels the rows of gamma at
\* the labelled timesteps are forced one-hot (lines 553-556)
\* lines 553-556: the rows of gamma at labelled timesteps are forced one-hot
ForcedRows(obj, gamma, y) ==
    IF y = NoLabels THEN gamma
    ELSE Array([t \in 1..Len(gamma) |->
                  IF y[t] >= 0 THEN OneHot(obj.n_states, y[t]) ELSE gamma[t]])

\* lines 549-558 of HMM.log_likelihood, for the buffers E of the E-step
log_likelihood_of(obj, E, y) ==
    [lnP |-> E.lnP_f, gamma |-> ForcedRows(obj, Array(eexp2d(E.ln_gamma)), y)]

log_likelihood(obj, X, y) ==
    log_likelihood_of(obj, e_step(obj, emission_log_proba_with_nan_support(obj, X)), y)

\* row.argmax(): the first nan if there is one, else the first maximum
RECURSIVE ArgMaxFrom(_, _, _)
ArgMaxFrom(row, i, best) ==
    IF i > Len(row) THEN best
    ELSE ArgMaxFrom(row, i + 1,
                    IF ~IsNaN(row[best]) /\ (IsNaN(row[i]) \/ LLess(row[best], row[i]))
                    THEN i ELSE best)
\* the first state, whatever the row holds
first_state(row) == 0

argmax(row) == ArgMaxFrom(row, 2, 1) - 1

\* what a read of an emission array that was never assigned can do: raise
\* (Memoryview is not initialized), stop the process, or hand back bytes
UninitialisedReads == {"AttributeError", "crash", "garbage"}

\* no emission array of the object was ever assigned
Unassigned(obj) == obj.proba = <<>> /\ obj.mu = <<>>

\* the sequences handed to the calls: the first MaxLen observations of the
\* first training sequence of a trained object, a sequence of one
\* observation otherwise
CallSequences(obj) ==
    IF pc = "trained" THEN {SubSeq(call.X_s[1], 1, MaxLen)}
    ELSE {c[1] : c \in {X_s \in Corpora(obj) : Len(X_s[1]) = 1}}

\* the arguments of decode and score built from sequence X: X itself, the
\* list [X] and the list [X, X[:1]]
Single(X) == [given |-> "sequence", X_s |-> <<X>>]
ListOf(X_s) == [given |-> "list", X_s |-> X_s]
CallArguments(X) == {Single(X), ListOf(<<X>>), ListOf(<<X, SubSeq(X, 1, 1)>>)}

\* the list `decoded` of HMM.decode, or the exception
decoded(obj, X_s) ==
    Array([p \in 1..Len(X_s) |->
        LET ll == log_likelihood(obj, X_s[p], NoLabels)
        IN  [t \in 1..Len(X_s[p]) |-> argmax(ll.gamma[t])]])

\* HMM.decode(X): a list of one state sequence is returned as that sequence
\* (an array), a longer one as a list of arrays
Decode(arg) ==
    /\ pc \in {"idle", "trained"}
    /\ IF Unassigned(self)
       THEN \E o \in UninitialisedReads :
               ret' = [op |-> "decode",
                       outcome |-> IF o = "garbage" THEN "value" ELSE o,
                       value |-> <<>>]
       ELSE \E d \in {decoded(self, arg.X_s)} :
               ret' = [op |-> "decode", outcome |-> "value",
                       value |-> [given |-> arg.given, X_s |-> arg.X_s,
                                  returned |-> IF Len(d) = 1
                                               THEN [type |-> "array", states |-> d[1]]
                                               ELSE [type |-> "list", states |-> d]]]
    /\ UNCHANGED <<self, pc, call, bw, before>>

\* the E-step of the call followed by the M-step of baum_welch
LogLikelihoodThenMStep(X, y) ==
    /\ pc \in {"idle", "trained"}
    /\ ~Unassigned(self)
    /\ \E it \in {loop_body(self, <<X>>, IF y = NoLabels THEN NoLabels ELSE <<y>>,
                             EpsDefault, BigF)} :
           /\ self' = it.updated
           /\ ret' = [op |-> "log_likelihood", outcome |-> "value",
                      value |-> [y |-> y, lnP |-> GNeg(it.F), gamma |-> it.gamma_s[1]]]
    /\ UNCHANGED <<pc, call, bw, before>>

\* HMM.log_likelihood(X, y=y) called by the user
LogLikelihood(X, y) ==
    /\ pc \in {"idle", "trained"}
    /\ IF Unassigned(self)
       THEN \E o \in UninitialisedReads :
               ret' = [op |-> "log_likelihood",
                       outcome |-> IF o = "garbage" THEN "value" ELSE o,
                       value |-> <<>>]
       ELSE \E ll \in {log_likelihood(self, X, y)} :
               /\ ll.lnP.k # "ovf"
               /\ InRange2(ll.gamma)
               /\ ret' = [op |-> "log_likelihood", outcome |-> "value",
                          value |-> [y |-> y, lnP |-> ll.lnP, gamma |-> ll.gamma]]
    /\ UNCHANGED <<self, pc, call, bw, before>>

\* get_num_params_per_state of the three classes
get_num_params_per_state(obj) ==
    CASE obj.cls = "MHMM" -> obj.n_unique - 1
      [] obj.cls = "GHMM" ->
            obj.n_features + (obj.n_features * (obj.n_features + 1)) \div 2
      [] obj.cls = "GMMHMM" ->
            (obj.n_features + (obj.n_features * (obj.n_features + 1)) \div 2) * obj.n_components

\* every start probability and every transition probability counted as free
get_num_params_without_constraints(obj) ==
    get_num_params_per_state(obj) * obj.n_states + obj.n_states + obj.n_states * obj.n_states

\* HMM.get_num_params on a trained object
get_num_params(obj) ==
    get_num_params_per_state(obj) * obj.n_states
        + (obj.n_states - 1) + obj.n_states * (obj.n_states - 1)

Criteria == {"aic", "aicc", "bic", "negloglh"}

\* elog(n) of line 614, for the length n of a sequence: the natural
\* logarithm of n, kept as the number of times ln(n) is counted
elog_n == 1

\* the criteria with the Bayesian one as k ln(n) - 2 lnP
score_val_with_deviance(criterion, k, n) ==
    CASE criterion = "aic" -> [const |-> Int2Val(2 * k), by_lnP |-> -2, by_ln_n |-> 0]
      [] criterion = "aicc" ->
            [const |-> LAdd(Int2Val(2 * k), LDiv(Int2Val(2 * k * (k + 1)), Int2Val(n - k - 1))),
             by_lnP |-> -2, by_ln_n |-> 0]
      [] criterion = "bic" -> [const |-> Zero, by_lnP |-> -2, by_ln_n |-> k * elog_n]
      [] criterion = "negloglh" -> [const |-> Zero, by_lnP |-> -1, by_ln_n |-> 0]

\* the value of a criterion, const + by_lnP * lnP + by_ln_n * ln(n), kept as
\* its three coefficients (lines 609-616)
score_val(criterion, k, n) ==
    CASE criterion = "aic" -> [const |-> Int2Val(2 * k), by_lnP |-> -2, by_ln_n |-> 0]
      [] criterion = "aicc" ->
            [const |-> LAdd(Int2Val(2 * k), LDiv(Int2Val(2 * k * (k + 1)), Int2Val(n - k - 1))),
             by_lnP |-> -2, by_ln_n |-> 0]
      [] criterion = "bic" -> [const |-> Zero, by_lnP |-> -1, by_ln_n |-> k * elog_n]
      [] criterion = "negloglh" -> [const |-> Zero, by_lnP |-> -1, by_ln_n |-> 0]

\* lines 595-619 of HMM.score, given the summed log-likelihood of X_s
score(obj, X_s, lnP, criterion) ==
    LET n == Len(X_s[1])
    IN  IF ~is_trained(obj)
        THEN [op |-> "score", outcome |-> "UntrainedModelError", value |-> <<>>]
        ELSE IF criterion = "aicc" /\ n - get_num_params(obj) - 1 = 0
        THEN [op |-> "score", outcome |-> "ZeroDivisionError",
              value |-> [criterion |-> criterion, X_s |-> X_s]]
        ELSE IF criterion \notin Criteria
        THEN [op |-> "score", outcome |-> "UnknownCriterion",
              value |-> [criterion |-> criterion, X_s |-> X_s]]
        ELSE [op |-> "score", outcome |-> "value",
              value |-> [criterion |-> criterion, X_s |-> X_s,
                         k |-> get_num_params(obj), lnP |-> lnP, n |-> n,
                         score_val |-> score_val(criterion, get_num_params(obj), n)]]

\* HMM.score(X, criterion=criterion) with y=None.  The log-likelihood of
\* every sequence is computed first, the number of parameters second
Score(arg) ==
    /\ pc \in {"idle", "trained"}
    /\ IF Unassigned(self)
       THEN \E o \in UninitialisedReads :
               ret' = [op |-> "score",
                       outcome |-> IF o = "garbage" THEN "UntrainedModelError" ELSE o,
                       value |-> <<>>]
       ELSE \E lnP \in {SumLog([p \in 1..Len(arg.X_s) |->
                                   log_likelihood(self, arg.X_s[p], NoLabels).lnP])} :
               /\ lnP.k # "ovf"
               /\ \E criterion \in Criteria \cup {"unknown"} :
                      ret' = score(self, arg.X_s, lnP, criterion)
    /\ UNCHANGED <<self, pc, call, bw, before>>

\* HMM.__getstate__
HMM_getstate(obj) ==
    [arch |-> obj.arch, n_features |-> obj.n_features, missing_values |-> obj.missing_values,
     transition_mask |-> obj.transition_mask, pi |-> obj.initial_probs,
     a |-> obj.transition_probs]

\* the pi setter and the a setter
set_pi(obj, arr) == [obj EXCEPT !.initial_probs = arr, !.ln_initial_probs = elog1d(arr)]
set_a(obj, arr) == [obj EXCEPT !.transition_probs = arr, !.ln_transition_probs = elog2d(arr)]

\* HMM.__setstate__
HMM_setstate(obj, state) ==
    LET loaded == set_a(set_pi([obj EXCEPT !.arch = state.arch,
                                           !.n_features = state.n_features,
                                           !.missing_values = state.missing_values,
                                           !.transition_mask = state.transition_mask],
                               state.pi),
                        state.a)
    IN  [loaded EXCEPT !.n_states = Len(state.pi)]

\* __getstate__ of the object's class: the pickled state, or the exception
\* (GMMHMM.__getstate__ reads the name weights, which nothing defines)
getstate(obj) ==
    CASE obj.cls = "MHMM" ->
            [outcome |-> "value", value |-> [base |-> HMM_getstate(obj), proba |-> obj.proba]]
      [] obj.cls = "GHMM" ->
            [outcome |-> "value",
             value |-> [base |-> HMM_getstate(obj), mu |-> obj.mu, sigma |-> obj.sigma]]
      [] obj.cls = "GMMHMM" -> [outcome |-> "NameError", value |-> <<>>]

\* an object of class cls before __setstate__ fills it
Blank(cls) ==
    [ cls |-> cls, n_states |-> 0, n_features |-> 0, missing_values |-> FALSE,
      ln_initial_probs |-> <<>>, ln_transition_probs |-> <<>>,
      initial_probs |-> <<>>, transition_probs |-> <<>>, transition_mask |-> <<>>,
      arch |-> "", n_unique |-> 0, proba |-> <<>>, mu |-> <<>>, sigma |-> <<>>,
      weights |-> <<>>, n_components |-> 0 ]

\* __setstate__ of the object's class
setstate(obj, state) ==
    CASE obj.cls = "MHMM" ->
            HMM_setstate([obj EXCEPT !.proba = state.proba,
                                     !.n_unique = Len(state.proba[1])], state.base)
      [] obj.cls = "GHMM" ->
            HMM_setstate([obj EXCEPT !.mu = state.mu, !.sigma = state.sigma], state.base)
      [] obj.cls = "GMMHMM" ->
            HMM_setstate([obj EXCEPT !.mu = state.mu, !.sigma = state.sigma,
                                     !.weights = state.weights,
                                     !.n_components = Len(state.weights[1])], state.base)

\* saving a trained object: its __getstate__
GetState ==
    /\ pc = "trained"
    /\ \E st \in {getstate(self)} :
           ret' = [op |-> "getstate", outcome |-> st.outcome, value |-> st.value]
    /\ UNCHANGED <<self, pc, call, bw, before>>

\* loading: __setstate__ of a new object with the state saved last; the
\* loaded object takes the place of the saved one
SetState ==
    /\ pc = "trained"
    /\ ret.op = "getstate"
    /\ ret.outcome = "value"
    /\ self' = setstate(Blank(self.cls), ret.value)
    /\ before' = self
    /\ ret' = [op |-> "setstate", outcome |-> "value", value |-> <<>>]
    /\ UNCHANGED <<pc, call, bw>>

\* the arrays given to the setters: all the mass on the first state
FirstState(n) == [i \in 1..n |-> IF i = 1 THEN One ELSE Zero]

\* hmm.pi = arr
SetPi(arr) ==
    /\ pc \in {"idle", "trained"}
    /\ self' = set_pi(self, arr)
    /\ before' = self
    /\ ret' = [op |-> "set_pi", outcome |-> "value", value |-> <<>>]
    /\ UNCHANGED <<pc, call, bw>>

\* hmm.a = arr
SetA(arr) ==
    /\ pc \in {"idle", "trained"}
    /\ self' = set_a(self, arr)
    /\ before' = self
    /\ ret' = [op |-> "set_a", outcome |-> "value", value |-> <<>>]
    /\ UNCHANGED <<pc, call, bw>>

Next ==
    \/ pc = "idle" /\ \E X_s \in Corpora(self), seed \in Seeds, g \in Garbage :
          FitInitialize(X_s, seed, g, LabelsFor(self, X_s), 0..MaxIter, EpsValues)
    \/ BaumWelchIteration
    \/ BaumWelchReturn

Spec == Init /\ [][Next]_vars

\* ret holds the outcome of the last call; a call is made on a new object,
\* after training, after a load or after a decode
CallPoint == ret.op \in {"none", "setstate", "decode"}

\* the labels given to log_likelihood: none, or state 0 at every timestep
CallLabels(X) == {NoLabels, [t \in 1..Len(X) |-> 0]}

\* a new object is trained without labels, with the default tolerance and
\* at most one iteration, before anything else is called on it; the other
\* calls follow, the setters on objects that were not trained
NextUse ==
    \/ pc = "idle" /\ ret = NoRet /\ \E X_s \in Corpora(self), seed \in Seeds, g \in Garbage :
          /\ Len(X_s[1]) >= MaxLen
          /\ FitInitialize(X_s, seed, g, {NoLabels}, 0..1, {EpsDefault})
    \/ BaumWelchIteration
    \/ BaumWelchReturn
    \/ CallPoint /\ \E X \in CallSequences(self) : \E arg \in CallArguments(X) : Decode(arg)
    \/ CallPoint /\ \E X \in CallSequences(self) : \E arg \in CallArguments(X) : Score(arg)
    \/ CallPoint /\ \E X \in CallSequences(self) : \E y \in CallLabels(X) : LogLikelihood(X, y)
    \/ CallPoint /\ GetState
    \/ SetState
    \/ pc = "idle" /\ CallPoint /\ SetPi(FirstState(self.n_states))
    \/ pc = "idle" /\ CallPoint /\ SetA([i \in 1..self.n_states |-> FirstState(self.n_states)])

SpecUse == Init /\ [][NextUse]_vars

\* a corpus of one sequence of four rows of a single feature
NarrowCorpus == << << <<Int2Val(0)>>, <<Int2Val(1)>>, <<Int2Val(0)>>, <<Int2Val(1)>> >> >>

\* the corpora of a later call of fit: of one and of two features for the
\* Gaussian classes, of symbols for MHMM
RefitCorpora(obj) ==
    IF obj.cls = "MHMM" THEN {X_s \in CorporaOver(Symbols) : Len(X_s[1]) = MaxLen}
    ELSE {NarrowCorpus, LongCorpus}

\* HMM.fit called on an object that a call of fit has trained
Refit ==
    /\ pc = "trained"
    /\ \E X_s \in RefitCorpora(self), seed \in Seeds, g \in Garbage :
           FitInitialize(X_s, seed, g, {NoLabels}, 0..1, {EpsDefault})

\* fit is called on a new object, and again once a call has returned
NextRefit ==
    \/ pc = "idle" /\ \E X_s \in Corpora(self), seed \in Seeds, g \in Garbage :
          /\ Len(X_s[1]) >= MaxLen
          /\ FitInitialize(X_s, seed, g, {NoLabels}, 0..1, {EpsDefault})
    \/ BaumWelchIteration
    \/ BaumWelchReturn
    \/ Refit

SpecRefit == Init /\ [][NextRefit]_vars

\* logarithms handed to the E-step and to elogsum on their own: of 0, of
\* 1/2, of 1 (and of 2, +inf and nan for elogsum)
LogValues == {LOG_ZERO, Half, One}
ElogsumValues == LogValues \cup {Int2Val(2), INF, NaN}

\* an object of two states with the given logarithms of its probabilities
WithLogProbs(ln_initial_probs, ln_transition_probs) ==
    [HMM_init("MHMM", 2, "ergodic", FALSE, 1, "zero") EXCEPT
        !.ln_initial_probs = ln_initial_probs,
        !.ln_transition_probs = ln_transition_probs]

\* an object of two states about to run e_step on the lnf of a sequence:
\* the logarithms of its probabilities are drawn from probs, those of the
\* emissions from emissions
EStepArguments(probs, emissions) ==
    /\ \E ln_initial_probs \in [1..2 -> probs],
           ln_transition_probs \in [1..2 -> [1..2 -> probs]] :
              self = WithLogProbs(ln_initial_probs, ln_transition_probs)
    /\ pc = "iterating"
    /\ \E lnf \in UNION {[1..T -> [1..2 -> emissions]] : T \in 1..MaxLen} :
           bw = [NoLocals EXCEPT !.lnf_s = <<lnf>>]
    /\ ret = NoRet

\* the argument of one call: lnf of a sequence for e_step on an object of
\* two states, or a vector for elogsum
InitPure ==
    /\ call = NoCall
    /\ \/ EStepArguments(LogValues, LogValues)
       \/ /\ self = WithLogProbs(<<One, LOG_ZERO>>, << <<One, LOG_ZERO>>, <<LOG_ZERO, One>> >>)
          /\ pc = "idle"
          /\ bw = NoLocals
          /\ \E vec \in UNION {[1..n -> ElogsumValues] : n \in 0..MaxVec} :
                 ret = [op |-> "elogsum", outcome |-> "none", value |-> [vec |-> vec]]
    /\ before = self

\* HMM.e_step on the lnf of the call
EStep ==
    /\ pc = "iterating"
    /\ bw.lnf_s # <<>>
    /\ bw.E = <<>>
    /\ bw' = [bw EXCEPT !.E = <<e_step(self, bw.lnf_s[1])>>]
    /\ UNCHANGED <<self, pc, call, before, ret>>

\* elogsum on the vector of the call
Elogsum ==
    /\ ret.op = "elogsum"
    /\ ret.outcome = "none"
    /\ ret' = [op |-> "elogsum", outcome |-> "value",
               value |-> [vec |-> ret.value.vec, s |-> elogsum(ret.value.vec)]]
    /\ UNCHANGED <<self, pc, call, bw, before>>

NextPure == EStep \/ Elogsum

SpecPure == InitPure /\ [][NextPure]_vars

\* logarithms of emission densities: a density may be 0, 1 or infinite
DensityValues == {LOG_ZERO, One, INF}

\* e_step on the lnf of a sequence whose emission densities may be infinite
InitDensity ==
    /\ call = NoCall
    /\ EStepArguments({LOG_ZERO, One}, DensityValues)
    /\ before = self

SpecDensity == InitDensity /\ [][EStep]_vars

\* an iteration whose values leave the modelled range is not followed
\* further
LeaveRange ==
    /\ pc = "iterating"
    /\ bw.i < call.max_n_iter
    /\ ~IterationInRange(loop_body(self, call.X_s, call.Y_s, call.eps, bw.old_F), call.eps)
    /\ pc' = "unmodelled"
    /\ UNCHANGED <<self, call, bw, before, ret>>

\* fit with max_n_iter > 0 on a new object
NextLive ==
    \/ pc = "idle" /\ \E X_s \in Corpora(self), seed \in Seeds, g \in Garbage :
          FitInitialize(X_s, seed, g, LabelsFor(self, X_s), 1..MaxIter, EpsValues)
    \/ BaumWelchIteration
    \/ BaumWelchReturn
    \/ LeaveRange

\* the body of the loop of baum_welch, whatever its values
LoopPass == BaumWelchIteration \/ LeaveRange

\* baum_welch is sequential code: a call that has a step to take takes it.
\* The second condition is WF_vars(LoopPass) with ENABLED <<LoopPass>>_vars
\* written out: a pass is possible exactly while the loop condition
\* i < max_n_iter holds.
SpecLive ==
    /\ Init
    /\ [][NextLive]_vars
    /\ WF_vars(BaumWelchReturn)
    /\ \/ []<>(~(pc = "iterating" /\ bw.i < call.max_n_iter))
       \/ []<><<LoopPass>>_vars

\* fit called with a corpus of no sequence
FitEmpty ==
    \E seed \in Seeds, g \in Garbage :
        FitInitialize(<<>>, seed, g, {NoLabels}, 0..MaxIter, EpsValues)

\* fit is called on a new object with a corpus, or with an empty one
NextEmpty ==
    \/ pc = "idle" /\ ret = NoRet /\ \E X_s \in Corpora(self), seed \in Seeds, g \in Garbage :
          /\ Len(X_s[1]) >= MaxLen
          /\ FitInitialize(X_s, seed, g, {NoLabels}, 0..1, {EpsDefault})
    \/ BaumWelchIteration
    \/ BaumWelchReturn
    \/ pc \in {"idle", "trained"} /\ ret = NoRet /\ FitEmpty

SpecEmpty == Init /\ [][NextEmpty]_vars

(***************************************************************************)
(* HMM.sample                                                              *)
(***************************************************************************)
\* <data_t>rand() / <data_t>RAND_MAX: rand() returns 0, RAND_MAX, or a
\* value in between (here the middle one)
Thresholds == {Zero, MkFin(1, 2), One}

\* a >= b on linear-space values; every comparison with nan is false
LGreaterEq(a, b) == LLess(b, a) \/ (a = b /\ a.k \notin {"nan", "ovf"})

\* the loop of randint_with_weights from index i on (indices from 0)
RECURSIVE RandintFrom(_, _, _, _)
RandintFrom(weights, i, cumsum, threshold) ==
    IF i >= Len(weights) THEN -1
    ELSE IF LGreaterEq(LAdd(cumsum, weights[i + 1]), threshold) THEN i
    ELSE RandintFrom(weights, i + 1, LAdd(cumsum, weights[i + 1]), threshold)

\* randint_with_weights (lines 149-159) for the value threshold of
\* rand() / RAND_MAX
randint_with_weights(weights, threshold) == RandintFrom(weights, 0, Zero, threshold)

\* np.random.choice(np.arange(n), p=p) accepts p: no nan, no negative
\* entry, sum 1
ValidProbabilities(p) ==
    /\ \A i \in 1..Len(p) : p[i].k = "fin" /\ p[i].n >= 0
    /\ IsOne(LSum(p))

\* the states np.random.choice may return: those of positive probability
ChoiceOutcomes(p) == {i \in 0..(Len(p) - 1) : Sign(p[i + 1]) > 0}

\* the row transition_probs[state_id] as line 642 reads it: with
\* wraparound and boundscheck off a state_id of -1 reads the memory
\* before the array (all-zero or nan bytes)
TransitionRow(obj, state_id, g) ==
    IF state_id >= 0 THEN obj.transition_probs[state_id + 1]
    ELSE Vec(obj.n_states, GarbageLin(g))

\* states[0..t] as the loop of lines 635-642 leaves it after t steps from
\* the initial state s0, for the draws of rand() of the call
RECURSIVE SampledStates(_, _, _, _, _)
SampledStates(obj, s0, draws, g, t) ==
    IF t = 0 THEN <<s0>>
    ELSE LET states == SampledStates(obj, s0, draws, g, t - 1)
         IN  Append(states,
                    randint_with_weights(TransitionRow(obj, states[t], g), draws[t]))

\* HMM.sample(n_samples): the states it returns (states[:-1])
sample(obj, n_samples, s0, draws, g) ==
    IF ~ValidProbabilities(obj.initial_probs)
    THEN [outcome |-> "ValueError", value |-> [n_samples |-> n_samples]]
    ELSE [outcome |-> "value",
          value |-> [n_samples |-> n_samples,
                     states |-> SubSeq(SampledStates(obj, s0, draws, g, n_samples),
                                       1, n_samples)]]

\* hmm.sample(n_samples) on a trained object
Sample(n_samples) ==
    /\ pc = "trained"
    /\ ret = NoRet
    /\ \E draws \in [1..n_samples -> Thresholds], g \in Garbage,
          s0 \in ChoiceOutcomes(self.initial_probs) \cup {0} :
           /\ ValidProbabilities(self.initial_probs) => s0 \in ChoiceOutcomes(self.initial_probs)
           /\ \E r \in {sample(self, n_samples, s0, draws, g)} :
                  ret' = [op |-> "sample", outcome |-> r.outcome, value |-> r.value]
    /\ UNCHANGED <<self, pc, call, bw, before>>

\* a new object is trained without labels, with the default tolerance and
\* at most one iteration, and sample is called on it
NextSample ==
    \/ pc = "idle" /\ \E X_s \in Corpora(self), seed \in Seeds, g \in Garbage :
          /\ Len(X_s[1]) >= MaxLen
          /\ FitInitialize(X_s, seed, g, {NoLabels}, 0..1, {EpsDefault})
    \/ BaumWelchIteration
    \/ BaumWelchReturn
    \/ \E n_samples \in 1..MaxSamples : Sample(n_samples)

SpecSample == Init /\ [][NextSample]_vars

(***************************************************************************)
(* Queue (archmm/estimation/queue.pyx)                                     *)
(***************************************************************************)
NULL == 0

\* the addresses malloc hands out, and the data pointers given to enqueue
Addresses == 1..MaxNodes
Items == 1..MaxItem

\* the memory of the process: a Queue_Node at every address, live between
\* its malloc and its free
NoNode == [data |-> NULL, next |-> NULL, live |-> FALSE]

\* malloc(sizeof(Queue_Node)): an address that is not live
malloc(heap) == CHOOSE a \in Addresses : ~heap[a].live /\ \A b \in 1..(a - 1) : heap[b].live

\* free(temp)
free(heap, temp) == [heap EXCEPT ![temp] = NoNode]

\* newQueue (lines 10-15)
newQueue == [front_node |-> NULL, rear_node |-> NULL, length |-> 0]

\* a node put in front of the queue instead of behind it
enqueue_at_front(st, data) ==
    LET temp == malloc(st.heap)
    IN  [queue |-> [st.queue EXCEPT !.front_node = temp,
                                    !.rear_node = IF @ = NULL THEN temp ELSE @,
                                    !.length = @ + 1],
         heap |-> [st.heap EXCEPT ![temp] =
                      [data |-> data, next |-> st.queue.front_node, live |-> TRUE]]]

\* enqueue (lines 17-27) on the queue and the memory of st
enqueue(st, data) ==
    LET temp == malloc(st.heap)
        heap == [st.heap EXCEPT ![temp] = [data |-> data, next |-> NULL, live |-> TRUE]]
        queue == st.queue
    IN  IF queue.front_node = NULL \/ queue.rear_node = NULL
        THEN [queue |-> [queue EXCEPT !.front_node = temp, !.rear_node = temp,
                                      !.length = @ + 1],
              heap |-> heap]
        ELSE [queue |-> [queue EXCEPT !.rear_node = temp, !.length = @ + 1],
              heap |-> [heap EXCEPT ![queue.rear_node].next = temp]]

\* line 31 of dequeue with temp = NULL: item = temp.data reads through the
\* null pointer before line 32 tests it.  The read kills the process
\* (segfault), or yields some value and the test that follows prints the
\* error and exits
NullReadOutcomes == {"segfault", "exit"}

\* dequeue (lines 29-42): the queue and the memory it leaves, the item it
\* returns, and the reads it made through a null pointer
dequeue(st, outcome) ==
    LET queue == st.queue
        temp == queue.front_node
    IN  IF temp = NULL
        THEN [st |-> st, outcome |-> outcome, item |-> NULL, null_reads |-> 1,
              printed |-> IF outcome = "exit"
                          THEN <<"Error in dequeue() : Queue is empty">> ELSE <<>>]
        ELSE [st |-> [queue |-> IF queue.length = 1
                                THEN [queue EXCEPT !.front_node = NULL, !.rear_node = NULL,
                                                   !.length = @ - 1]
                                ELSE [queue EXCEPT !.front_node = st.heap[temp].next,
                                                   !.length = @ - 1],
                      heap |-> free(st.heap, temp)],
              outcome |-> "value", item |-> st.heap[temp].data, null_reads |-> 0,
              printed |-> <<>>]

\* isQueueEmpty (lines 44-45)
isQueueEmpty(queue) == queue.length = 0

\* the calls made so far: the items enqueued and the items dequeue returned
NoHistory == [enqueued |-> <<>>, dequeued |-> <<>>]

\* a process that has called newQueue
InitQueue ==
    /\ self = [queue |-> newQueue, heap |-> [a \in Addresses |-> NoNode]]
    /\ pc = "queue"
    /\ call = NoCall
    /\ bw = NoHistory
    /\ before = self
    /\ ret = NoRet

Enqueue(data) ==
    /\ pc = "queue"
    /\ Len(bw.enqueued) < MaxEnqueues
    /\ \E a \in Addresses : ~self.heap[a].live
    /\ self' = enqueue(self, data)
    /\ before' = self
    /\ bw' = [bw EXCEPT !.enqueued = Append(@, data)]
    /\ ret' = [op |-> "enqueue", outcome |-> "value", value |-> <<>>]
    /\ UNCHANGED <<pc, call>>

Dequeue ==
    /\ pc = "queue"
    /\ \E outcome \in NullReadOutcomes :
         \E r \in {dequeue(self, outcome)} :
           /\ self' = r.st
           /\ before' = self
           /\ pc' = IF r.outcome = "value" THEN "queue" ELSE "exited"
           /\ bw' = IF r.outcome = "value"
                    THEN [bw EXCEPT !.dequeued = Append(@, r.item)] ELSE bw
           /\ ret' = [op |-> "dequeue", outcome |-> r.outcome,
                      value |-> [item |-> r.item, null_reads |-> r.null_reads,
                                 printed |-> r.printed]]
    /\ UNCHANGED call

NextQueue ==
    \/ \E data \in Items : Enqueue(data)
    \/ Dequeue

SpecQueue == InitQueue /\ [][NextQueue]_vars

(***************************************************************************)
(* The backward passes (HMM.backward of src/archmm/hmm.pyx,                *)
(* BaseHMM.backwardProcedure and BaseHMM.linBackwardProcedure of           *)
(* src/ArchMM/Cyfiles/HMM.pyx), one row of the buffer per step             *)
(***************************************************************************)
\* LOG_ZERO of src/ArchMM/Cyfiles/HMM.pyx: np.nan_to_num(-np.inf)
Cyfiles_LOG_ZERO == NegMax

\* eexp of src/ArchMM/Cyfiles/HMM.pyx
Cyfiles_eexp(x) == IF x # Cyfiles_LOG_ZERO THEN ExpRaw(x) ELSE Zero

\* ndarray.max(): nan if an element is
NpMax(v) ==
    IF \E i \in 1..Len(v) : v[i].k = "ovf" THEN Ovf
    ELSE IF \E i \in 1..Len(v) : IsNaN(v[i]) THEN NaN
    ELSE MaxFrom(v, 2, v[1])

\* elogsum of src/ArchMM/Cyfiles/HMM.pyx over one row; axis says whether the
\* call passes a non-zero axis (then nan becomes LOG_ZERO)
Cyfiles_elogsum(matrix, axis) ==
    LET v == Array(matrix)
        M == NpMax(v)
        sum == GAdd(LogRaw(LSum([i \in 1..Len(v) |-> Cyfiles_eexp(GSub(v[i], M))])), M)
    IN  IF axis /\ IsNaN(sum) THEN Cyfiles_LOG_ZERO ELSE sum

BackwardPasses ==
    {"HMM.backward", "BaseHMM.backwardProcedure", "BaseHMM.linBackwardProcedure"}

\* the values of t (rows from 0) the loop of a pass visits, in order:
\* range(T - 2, -1, -1) in the two log-space passes, range(0, T - 1) in
\* linBackwardProcedure
BackwardRange(pass, T) ==
    IF pass = "BaseHMM.linBackwardProcedure"
    THEN [k \in 1..(T - 1) |-> k - 1]
    ELSE [k \in 1..(T - 1) |-> T - 1 - k]

\* the value every element of the last row is set to: 0.0 in log space, 1
BackwardLastRow(pass, n) == [i \in 1..n |-> One]

\* row t of the buffer as the body of the loop computes it, from row t + 1
\* of the buffer as it stands (row t of the source is element t + 1 here)
BackwardRow(pass, obj, A, lnf, B, beta, t) ==
    CASE pass = "HMM.backward" ->
            Array([i \in 1..obj.n_states |->
                elogsum([j \in 1..obj.n_states |->
                    GAdd(GAdd(compute_ln_phi(obj)[i][j], beta[t + 2][j]), lnf[t + 2][j])])])
      [] pass = "BaseHMM.backwardProcedure" ->
            Array([i \in 1..obj.n_states |->
                Cyfiles_elogsum([j \in 1..obj.n_states |->
                    GAdd(GAdd(obj.ln_transition_probs[i][j], lnf[t + 2][j]), beta[t + 2][j])],
                    TRUE)])
      [] OTHER ->
            Array([i \in 1..obj.n_states |->
                LSum([j \in 1..obj.n_states |->
                    LMul(LMul(beta[t + 2][j], A[i][j]), B[t + 2][j])])])

\* the value the pass returns (linBackwardProcedure returns nothing)
BackwardValue(pass, obj, lnf, beta) ==
    CASE pass = "HMM.backward" -> backward_lnP(obj, lnf, beta)
      [] pass = "BaseHMM.backwardProcedure" ->
            Cyfiles_elogsum([i \in 1..obj.n_states |->
                GAdd(GAdd(NanToNumLog(beta[1][i]), lnf[1][i]), obj.ln_initial_probs[i])],
                FALSE)
      [] OTHER -> Zero

\* a pass about to start on an object of two states: the buffer holds what
\* its allocation left in it
InitBackward ==
    /\ \E ln_transition_probs \in [1..2 -> [1..2 -> {Half, One}]] :
          self = WithLogProbs(<<Half, Half>>, ln_transition_probs)
    /\ pc = "backward"
    /\ \E pass \in BackwardPasses, T \in 1..MaxRows :
          \E lnf \in [1..T -> [1..2 -> {Half, One}]], g \in Garbage :
             /\ call = [pass |-> pass, T |-> T, lnf |-> lnf, B |-> eexp2d(lnf),
                        A |-> eexp2d(self.ln_transition_probs)]
             /\ bw = [k |-> 0,
                      beta |-> [t \in 1..T |-> [i \in 1..2 |->
                                  IF pass = "BaseHMM.linBackwardProcedure"
                                  THEN GarbageLin(g) ELSE GarbageLog(g)]]]
    /\ before = self
    /\ ret = NoRet

\* the rows of the buffer written so far (rows from 0)
BackwardWritten ==
    IF bw.k = 0 THEN {}
    ELSE {call.T - 1} \cup {BackwardRange(call.pass, call.T)[m] : m \in 1..(bw.k - 1)}

\* the statements before the loop: the last row
BackwardInitialise ==
    /\ pc = "backward"
    /\ bw.k = 0
    /\ bw' = [k |-> 1, beta |-> [bw.beta EXCEPT ![call.T] = BackwardLastRow(call.pass, 2)]]
    /\ UNCHANGED <<self, pc, call, before, ret>>

\* one iteration of the loop over t
BackwardIteration ==
    /\ pc = "backward"
    /\ bw.k \in 1..(call.T - 1)
    /\ LET t == BackwardRange(call.pass, call.T)[bw.k]
       IN  bw' = [k |-> bw.k + 1,
                  beta |-> [bw.beta EXCEPT ![t + 1] =
                              BackwardRow(call.pass, self, call.A, call.lnf, call.B, bw.beta, t)]]
    /\ UNCHANGED <<self, pc, call, before, ret>>

\* the loop is over: the pass returns
BackwardReturn ==
    /\ pc = "backward"
    /\ bw.k = call.T
    /\ pc' = "returned"
    /\ ret' = [op |-> call.pass, outcome |-> "value",
               value |-> BackwardValue(call.pass, self, call.lnf, bw.beta)]
    /\ UNCHANGED <<self, call, bw, before>>

NextBackward == BackwardInitialise \/ BackwardIteration \/ BackwardReturn

SpecBackward == InitBackward /\ [][NextBackward]_vars

(***************************************************************************)
(* BaseHMM.E_step (src/ArchMM/Cyfiles/HMM.pyx)                             *)
(***************************************************************************)
\* the rows ln_alpha[0..t-1] BaseHMM.forwardProcedure writes into its buffer
RECURSIVE forwardProcedure(_, _, _)
forwardProcedure(obj, lnf, t) ==
    IF t = 1
    THEN << Array([i \in 1..obj.n_states |->
                      NanToNumLog(GAdd(obj.ln_initial_probs[i], lnf[1][i]))]) >>
    ELSE Append(forwardProcedure(obj, lnf, t - 1),
                Array([j \in 1..obj.n_states |->
                   GAdd(Cyfiles_elogsum([i \in 1..obj.n_states |->
                            GAdd(forwardProcedure(obj, lnf, t - 1)[t - 1][i],
                                 obj.ln_transition_probs[i][j])], TRUE),
                        lnf[t][j])]))

\* the value BaseHMM.forwardProcedure returns: elogsum over the last row of
\* a copy of the buffer passed through np.nan_to_num
forwardProcedure_lnP(ln_alpha) ==
    Cyfiles_elogsum([i \in 1..Len(ln_alpha[Len(ln_alpha)]) |->
                        NanToNumLog(ln_alpha[Len(ln_alpha)][i])], FALSE)

\* the loop of a backward pass from its k-th iteration on
RECURSIVE BackwardLoop(_, _, _, _, _, _, _)
BackwardLoop(pass, obj, A, lnf, B, beta, k) ==
    IF k > Len(lnf) - 1 THEN beta
    ELSE BackwardLoop(pass, obj, A, lnf, B,
                      [beta EXCEPT ![BackwardRange(pass, Len(lnf))[k] + 1] =
                          BackwardRow(pass, obj, A, lnf, B, beta,
                                      BackwardRange(pass, Len(lnf))[k])],
                      k + 1)

\* the buffer as BaseHMM.backwardProcedure leaves it
backwardProcedure(obj, lnf, ln_beta) ==
    BackwardLoop("BaseHMM.backwardProcedure", obj, <<>>, lnf, <<>>,
                 [ln_beta EXCEPT ![Len(lnf)] =
                     BackwardLastRow("BaseHMM.backwardProcedure", obj.n_states)], 1)

\* ln_eta -= lnP_f: the whole array, in place
SubtractFromAll(ln_eta, lnP_f) ==
    [t \in 1..Len(ln_eta) |-> [i \in 1..Len(ln_eta[t]) |-> [j \in 1..Len(ln_eta[t][i]) |->
        GSub(ln_eta[t][i][j], lnP_f)]]]

\* the loop over i of BaseHMM.E_step from state i on (states from 1 here):
\* the entries of state i are written for every j and t, then lnP_f is
\* subtracted from the array
RECURSIVE E_step_loop(_, _, _, _, _, _, _)
E_step_loop(obj, lnf, ln_alpha, ln_beta, lnP_f, ln_eta, i) ==
    IF i > obj.n_states THEN ln_eta
    ELSE E_step_loop(obj, lnf, ln_alpha, ln_beta, lnP_f,
            SubtractFromAll(
                [t \in 1..(Len(lnf) - 1) |-> [ii \in 1..obj.n_states |-> [j \in 1..obj.n_states |->
                    IF ii = i
                    THEN GAdd(GAdd(GAdd(ln_alpha[t][i], obj.ln_transition_probs[i][j]),
                                   lnf[t + 1][j]), ln_beta[t + 1][j])
                    ELSE ln_eta[t][ii][j]]]],
                lnP_f),
            i + 1)

\* whether line 372 finds abs((lnP_f - lnP_b) / lnP_f) > 1.0e-6: never for
\* equal values; for different ones the size of the difference decides
MismatchOutcomes(lnP_f, lnP_b) == IF lnP_f = lnP_b THEN {FALSE} ELSE BOOLEAN

\* lines 376-383 of BaseHMM.E_step, from the buffers the two procedures
\* filled and the values they returned
E_step_posteriors(obj, lnf, ln_alpha, ln_beta, lnP_f, lnP_b, ln_eta) ==
    [ln_alpha |-> ln_alpha, ln_beta |-> ln_beta, lnP_f |-> lnP_f, lnP_b |-> lnP_b,
     buffer |-> E_step_loop(obj, lnf, ln_alpha, ln_beta, lnP_f, ln_eta, 1),
     ln_eta |-> [t \in 1..(Len(lnf) - 1) |-> [i \in 1..obj.n_states |-> [j \in 1..obj.n_states |->
                   NanToNumLog(E_step_loop(obj, lnf, ln_alpha, ln_beta, lnP_f, ln_eta, 1)[t][i][j])]]],
     ln_gamma |-> [t \in 1..Len(lnf) |-> [i \in 1..obj.n_states |->
                   GSub(GAdd(ln_alpha[t][i], ln_beta[t][i]), lnP_f)]]]

\* BaseHMM.E_step: the buffers it fills and what it returns
E_step(obj, lnf, ln_beta, ln_eta) ==
    E_step_posteriors(obj, lnf,
        forwardProcedure(obj, lnf, Len(lnf)),
        backwardProcedure(obj, lnf, ln_beta),
        NanToNumLog(forwardProcedure_lnP(forwardProcedure(obj, lnf, Len(lnf)))),
        NanToNumLog(BackwardValue("BaseHMM.backwardProcedure", obj, lnf,
                                  backwardProcedure(obj, lnf, ln_beta))),
        ln_eta)

\* an object of two states about to run E_step on the lnf of a sequence,
\* with the buffers logFit allocated with np.zeros or left from the
\* iteration before
InitBaseHMM ==
    /\ \E ln_transition_probs \in [1..2 -> [1..2 -> {Cyfiles_LOG_ZERO, Half, One}]] :
          self = WithLogProbs(<<Half, Half>>, ln_transition_probs)
    /\ pc = "E_step"
    /\ \E T \in 1..MaxLen : \E lnf \in [1..T -> [1..2 -> {Half, One}]], old \in {One, Half} :
          /\ call = [lnf |-> lnf]
          /\ bw = [ln_alpha |-> [t \in 1..T |-> [i \in 1..2 |-> old]],
                   ln_beta |-> [t \in 1..T |-> [i \in 1..2 |-> old]],
                   ln_eta |-> [t \in 1..(T - 1) |-> [i \in 1..2 |-> [j \in 1..2 |-> old]]]]
    /\ before = self
    /\ ret = NoRet

\* BaseHMM.E_step on the lnf of the call
BaseHMM_E_step ==
    /\ pc = "E_step"
    /\ \E E \in {E_step(self, call.lnf, bw.ln_beta, bw.ln_eta)} :
          /\ bw' = [ln_alpha |-> E.ln_alpha, ln_beta |-> E.ln_beta, ln_eta |-> E.buffer]
          /\ \E printed \in MismatchOutcomes(E.lnP_f, E.lnP_b) :
                ret' = [op |-> "E_step", outcome |-> "value",
                        value |-> [ln_eta |-> E.ln_eta, ln_gamma |-> E.ln_gamma,
                                   lnP_f |-> E.lnP_f, printed |-> printed]]
    /\ pc' = "returned"
    /\ UNCHANGED <<self, call, before>>

SpecBaseHMM == InitBaseHMM /\ [][BaseHMM_E_step]_vars

(***************************************************************************)
(* BaseHMM.logFit (src/ArchMM/Cyfiles/HMM.pyx) on observations of one      *)
(* feature                                                                 *)
(***************************************************************************)
\* mcv = 0.00001, the first amount GaussianLoglikelihood adds to a diagonal
Mcv == [k |-> "fin", n |-> 1, d |-> 100000]

\* np.linalg.det of a matrix of one row and one column
np_linalg_det(m) == m[1][1]

\* the while loop of GaussianLoglikelihood on sigma[k]: the array as the
\* loop leaves it (the statement sigma[k, j, j] += mcv writes the caller's
\* array)
RECURSIVE Regularised(_, _)
Regularised(sigma_k, mcv) ==
    IF IsZero(np_linalg_det(sigma_k)) \/ IsNaN(LogRaw(np_linalg_det(sigma_k)))
    THEN Regularised(<< << IF IsZero(sigma_k[1][1]) THEN mcv ELSE LAdd(sigma_k[1][1], mcv) >> >>,
                     LMul(mcv, Int2Val(10)))
    ELSE sigma_k

\* GaussianLoglikelihood(obs, mu, sigma): the array sigma as the call leaves
\* it and the lnf it returns (the density is that of gaussian_log_proba)
GaussianLoglikelihood(obs, mu, sigma) ==
    [sigma |-> [k \in 1..Len(mu) |-> Regularised(sigma[k], Mcv)],
     lnf |-> [t \in 1..Len(obs) |-> [k \in 1..Len(mu) |->
                gaussian_log_proba(obs, mu[k], Regularised(sigma[k], Mcv))[t]]]]

\* np.nan_to_num on a linear-space element
NanToNum(a) ==
    CASE a.k = "nan" -> Zero
      [] a.k = "pinf" -> PosMax
      [] a.k = "ninf" -> NegMax
      [] OTHER -> a

\* lines 430-439 of logFit for state k: the new mu[k] and sigma[k]
logFit_state(obj, obs, gamma, k, post_sum) ==
    LET norm == IF ~IsZero(post_sum) THEN LDiv(One, post_sum) ELSE LNeg(Cyfiles_LOG_ZERO)
        temp == NanToNum(LSum([t \in 1..Len(obs) |->
                                  LMul(LMul(gamma[t][k], obs[t][1]), obs[t][1])]))
        mu_k == NanToNum(LMul(LSum([t \in 1..Len(obs) |-> LMul(gamma[t][k], obs[t][1])]), norm))
    IN  [mu |-> IF IsZero(mu_k) THEN obj.previous_mu[k] ELSE << mu_k >>,
         sigma |-> << << NanToNum(LSub(LMul(temp, norm), LMul(mu_k, mu_k))) >> >>]

\* lines 428-443 of logFit: the object after the re-estimation (the two
\* comparisons with np.nan of lines 438 and 440 are false everywhere)
logFit_m_step(obj, obs, gamma) ==
    LET new == [k \in 1..obj.n_states |->
                  logFit_state(obj, obs, gamma, k,
                               LSum([t \in 1..Len(obs) |-> gamma[t][k]]))]
    IN  [obj EXCEPT !.mu = [k \in 1..obj.n_states |-> new[k].mu],
                    !.sigma = [k \in 1..obj.n_states |-> new[k].sigma],
                    !.previous_mu = [k \in 1..obj.n_states |-> new[k].mu],
                    !.previous_sigma = [k \in 1..obj.n_states |-> new[k].sigma]]

\* the object and the buffers of logFit before its loop: two states, means
\* on two of the observed values, unit variances
InitLogFit ==
    /\ \E mu \in [1..2 -> {<<Zero>>, <<One>>}] :
          self = [n_states |-> 2, mu |-> mu, sigma |-> <<<<<<One>>>>, <<<<One>>>>>>,
                  previous_mu |-> mu, previous_sigma |-> <<<<<<One>>>>, <<<<One>>>>>>,
                  ln_initial_probs |-> <<Half, Half>>,
                  ln_transition_probs |-> <<<<Half, Half>>, <<Half, Half>>>>]
    /\ pc = "logFit: E-step"
    /\ \E T \in 1..MaxLen, n_iterations \in 1..MaxIter :
          \E obs \in [1..T -> {<<Zero>>, <<One>>, <<Int2Val(2)>>}] :
             /\ call = [obs |-> obs, n_iterations |-> n_iterations]
             /\ bw = [i |-> 0, old_F |-> BigF, has_converged |-> FALSE, printed |-> FALSE,
                      ln_alpha |-> [t \in 1..T |-> [i \in 1..2 |-> One]],
                      ln_beta |-> [t \in 1..T |-> [i \in 1..2 |-> One]],
                      ln_eta |-> [t \in 1..(T - 1) |-> [i \in 1..2 |-> [j \in 1..2 |-> One]]],
                      ln_gamma |-> <<>>]
    /\ before = self
    /\ ret = NoRet

\* lines 421-427 of an iteration of logFit: the emission log-probabilities
\* and the E-step. convergence_threshold is <long>0.0001 = 0, so the test
\* np.abs(dF) < convergence_threshold of line 425 never holds
LogFitEStep ==
    /\ pc = "logFit: E-step"
    /\ bw.i < call.n_iterations
    /\ \E G \in {GaussianLoglikelihood(call.obs, self.mu, self.sigma)} :
          /\ self' = [self EXCEPT !.sigma = G.sigma]
          /\ \E E \in {E_step(self, G.lnf, bw.ln_beta, bw.ln_eta)} :
               \E printed \in MismatchOutcomes(E.lnP_f, E.lnP_b) :
                  bw' = [bw EXCEPT !.ln_alpha = E.ln_alpha, !.ln_beta = E.ln_beta,
                                   !.ln_eta = E.buffer, !.ln_gamma = E.ln_gamma,
                                   !.old_F = GNeg(E.lnP_f), !.printed = printed]
    /\ pc' = "logFit: M-step"
    /\ UNCHANGED <<call, before, ret>>

\* lines 428-444 of the iteration: the re-estimation of mu and sigma
LogFitMStep ==
    /\ pc = "logFit: M-step"
    /\ self' = logFit_m_step(self, call.obs,
                             [t \in 1..Len(bw.ln_gamma) |-> [k \in 1..self.n_states |->
                                 Cyfiles_eexp(bw.ln_gamma[t][k])]])
    /\ before' = self
    /\ bw' = [bw EXCEPT !.i = bw.i + 1]
    /\ pc' = "logFit: E-step"
    /\ UNCHANGED <<call, ret>>

\* the loop of logFit ran n_iterations times
LogFitReturn ==
    /\ pc = "logFit: E-step"
    /\ bw.i = call.n_iterations
    /\ pc' = "returned"
    /\ UNCHANGED <<self, call, bw, before, ret>>

NextLogFit == LogFitEStep \/ LogFitMStep \/ LogFitReturn

SpecLogFit == InitLogFit /\ [][NextLogFit]_vars

(***************************************************************************)
(* Training on a corpus of two sequences                                   *)
(***************************************************************************)
\* the corpora of two different sequences
PairCorpora(obj) ==
    {X_s \in [1..2 -> SeqsOver(IF obj.cls = "MHMM" THEN Symbols ELSE Rows \cup {MissingRow})] :
        X_s[1] # X_s[2]}

\* y: None, or state 0 at every timestep of the first sequence and no
\* label in the second
PairLabels(X_s) ==
    {NoLabels, << [t \in 1..Len(X_s[1]) |-> 0], [t \in 1..Len(X_s[2]) |-> -1] >>}

\* fit with max_n_iter = 1 on a new object and a corpus of two sequences
NextPair ==
    \/ pc = "idle" /\ \E X_s \in PairCorpora(self), seed \in Seeds, g \in Garbage :
          FitInitialize(X_s, seed, g, PairLabels(X_s), {1}, {EpsDefault})
    \/ BaumWelchIteration
    \/ BaumWelchReturn

SpecPair == Init /\ [][NextPair]_vars

(***************************************************************************)
(* Properties                                                              *)
(***************************************************************************)
\* transition_probs[i, j] is 0 wherever transition_mask[i, j] is false
MaskRespected(obj) ==
    \A i \in 1..obj.n_states : \A j \in 1..obj.n_states :
        ~obj.transition_mask[i][j] => IsZero(obj.transition_probs[i][j])

RowsSumToOne(obj) ==
    /\ IsOne(LSum(obj.initial_probs))
    /\ \A i \in 1..obj.n_states : IsOne(LSum(obj.transition_probs[i]))

\* C1: after fit returns, on any model and for any max_n_iter >= 0, every
\* row of transition_probs and initial_probs sum to 1 and transition_probs
\* is exactly 0 wherever the mask is false
C1_TrainedIsStochasticAndMasked ==
    pc = "trained" => RowsSumToOne(self) /\ MaskRespected(self)

\* C2: for a 3-state model with the 'linear' architecture, after training
\* transition_probs holds 0 for every transition from a state j to a
\* lower-indexed state i < j (and for every other masked transition)
C2_LinearThreeStateMasked ==
    (pc = "trained" /\ self.n_states = 3 /\ self.arch = "linear") =>
        /\ MaskRespected(self)
        /\ \A j \in 1..3 : \A i \in 1..(j - 1) : IsZero(self.transition_probs[j][i])

\* C3: at the first iteration whose cost F satisfies |F - F_prev| < eps the
\* trainer stops iterating.  Stated for the iterations whose finite cost
\* equals the previous cost exactly (|F - F_prev| = 0 < eps): the step such
\* an iteration takes ends the training and runs no M-step
C3_StopsWhenCostUnchanged ==
    [][(/\ pc = "iterating"
        /\ bw.i >= 1
        /\ bw.i < call.max_n_iter
        /\ bw'.F.k = "fin"
        /\ bw'.F = bw.old_F)
       => (pc' = "trained" /\ self' = self)]_vars

\* ln_x is LOG_ZERO exactly where x is 0 and ln(x) elsewhere
MirrorsAgree(obj) ==
    /\ obj.ln_initial_probs = elog1d(obj.initial_probs)
    /\ obj.ln_transition_probs = elog2d(obj.transition_probs)

\* C5: after every operation that sets initial_probs or transition_probs
\* (estimate_params, each M-step, the setters, loading) the log mirrors
\* agree with the linear arrays, for the initial vector and the matrix
C5_LogMirrorsAgree ==
    pc \in {"iterating", "trained"} => MirrorsAgree(self)

\* the label of timestep t of sequence p, -1 without labels
LabelAt(p, t) == IF call.Y_s = NoLabels THEN -1 ELSE call.Y_s[p][t]

\* the posterior rows the last E-step computed for sequence p
PosteriorRows(p) == eexp2d(bw.E[p].ln_gamma)

\* C6: with labels, at every timestep whose label is >= 0 the gamma row used
\* by the re-estimations of the M-step (initial probabilities, transition
\* probabilities, emission parameters) is one-hot at the labelled state,
\* and at every timestep labelled -1 it is the unmodified posterior
C6_LabelledRowsOneHot ==
    (bw.m_steps >= 1 /\ call.Y_s # NoLabels) =>
        \A p \in 1..Len(call.X_s) : \A t \in 1..Len(call.X_s[p]) :
            IF LabelAt(p, t) >= 0
            THEN /\ bw.gamma_s[p][t] = OneHot(self.n_states, LabelAt(p, t))
                 /\ t <= Len(TransitionRows(bw.E[p].ln_gamma)) =>
                        [k \in 1..self.n_states |-> eexp(TransitionRows(bw.E[p].ln_gamma)[t][k])]
                            = OneHot(self.n_states, LabelAt(p, t))
            ELSE bw.gamma_s[p][t] = PosteriorRows(p)[t]

\* the total posterior weight of state k in the last M-step
PosteriorWeight(k) ==
    LET gamma == Concat(bw.gamma_s)
    IN  LSum([t \in 1..Len(gamma) |-> gamma[t][k]])

\* the emission parameters of state k
EmissionParams(obj, k) ==
    CASE obj.cls = "MHMM" -> <<obj.proba[k]>>
      [] obj.cls = "GHMM" -> <<obj.mu[k], obj.sigma[k]>>
      [] obj.cls = "GMMHMM" -> <<obj.mu[k], obj.sigma[k], obj.weights[k]>>

\* C7: in the emission update of an M-step, every state whose total
\* posterior weight is zero keeps the emission parameters it had before
C7_ZeroWeightStateUnchanged ==
    bw.m_steps >= 1 =>
        \A k \in 1..self.n_states :
            IsZero(PosteriorWeight(k)) => EmissionParams(self, k) = EmissionParams(before, k)

\* C8: after every emission update, each element of the emission parameter
\* arrays that came out as nan holds the value it had in the previous
\* iteration (stated on the means of a GHMM and the table of an MHMM)
C8_NaNKeepsPreviousValue ==
    bw.m_steps >= 1 =>
        LET X == Concat(call.X_s)
            gamma == Concat(bw.gamma_s)
        IN  CASE self.cls = "GHMM" ->
                    LET new == GHMM_reestimate(before, X, gamma)
                    IN  \A k \in 1..self.n_states : \A j \in 1..self.n_features :
                            IsNaN(new.mu[k][j]) => self.mu[k][j] = before.mu[k][j]
              [] self.cls = "MHMM" ->
                    LET new == MHMM_reestimate(before, X, gamma)
                    IN  \A k \in 1..self.n_states : \A i \in 1..self.n_unique :
                            IsNaN(new[k][i]) => self.proba[k][i] = before.proba[k][i]
              [] OTHER -> TRUE

\* C10: after the Initialize step of fit and before the first E-step,
\* transition_probs is 0 wherever the mask is false, for every architecture
\* and every emission variant
C10_InitialMatrixMasked ==
    (pc = "iterating" /\ bw.i = 0) => MaskRespected(self)

\* C4: score and decode on an object on which fit has never been run fail
\* with UntrainedModelError, for every sequence and every criterion, and
\* never return a value.
C4_UntrainedCallsRaise ==
    (pc = "idle" /\ ~is_trained(self) /\ ret.op \in {"score", "decode"})
        => ret.outcome = "UntrainedModelError"

\* the parts of an object a round trip is to preserve
SameModel(a, b) ==
    /\ a.n_states = b.n_states
    /\ a.transition_mask = b.transition_mask
    /\ a.initial_probs = b.initial_probs
    /\ a.transition_probs = b.transition_probs
    /\ a.proba = b.proba
    /\ a.mu = b.mu
    /\ a.sigma = b.sigma
    /\ a.weights = b.weights

\* C9: for every trained model of every emission variant, saving the state
\* succeeds and loading it yields the same number of states, mask,
\* initial/transition arrays and emission parameter arrays as the original.
C9_RoundTripRestoresModel ==
    /\ (pc = "trained" /\ ret.op = "getstate") => ret.outcome = "value"
    /\ (pc = "trained" /\ ret.op = "setstate") => SameModel(self, before)

\* a round trip that was completed restored the saved object
C9_CompletedRoundTrip ==
    (pc = "trained" /\ ret.op = "setstate") => SameModel(self, before)

\* a trained multinomial or Gaussian object was saved and loaded
C9_RoundTripDone ==
    pc = "trained" /\ ret.op = "setstate" /\ self.cls \in {"MHMM", "GHMM"}

\* C11: is_trained() is true only once a fit call reached Done: it is false
\* before any fit and after a fit call that failed
C11_TrainedOnlyAfterDone ==
    pc \in {"idle", "failed"} => ~is_trained(self)

\* C12: n_features is set by the first call of fit and no later call of fit
\* changes it, whatever the feature width of its sequences
C12_FeaturesFixedByFirstFit ==
    [][(pc = "trained" /\ pc' \in {"iterating", "failed"})
          => self'.n_features = self.n_features]_vars

\* the object the E-steps recorded in bw were run on: the loop ended by its
\* break leaves it in self, an M-step moves it to before
EStepObject == IF pc = "trained" /\ bw.i < call.max_n_iter THEN self ELSE before

C16_LogSumExp ==
    (ret.op = "elogsum" /\ ret.outcome = "value") =>
        LET vec == ret.value.vec
        IN  /\ (\A i \in 1..Len(vec) : vec[i] = LOG_ZERO) => ret.value.s = LOG_ZERO
            /\ (vec # <<>> /\ \A i \in 1..Len(vec) : vec[i] = vec[1])
                  => ret.value.s = GAdd(vec[1], Int2Val(Len(vec)))

\* C15: an E-step whose forward and backward log-likelihoods differ emits a
\* diagnostic warning, and still returns its posteriors and its forward
\* log-likelihood
C15_MismatchIsReported ==
    \A p \in 1..Len(bw.E) :
        bw.E[p].lnP_f # bw.E[p].lnP_b =>
            /\ bw.E[p].warnings # {}
            /\ Len(bw.E[p].ln_gamma) = Len(bw.lnf_s[p])

\* an E-step that returned its posteriors although its two log-likelihoods
\* differ
C15_MismatchReturned ==
    \E p \in 1..Len(bw.E) :
        bw.E[p].lnP_f # bw.E[p].lnP_b /\ Len(bw.E[p].ln_gamma) = Len(bw.lnf_s[p])

C18_Expected(criterion, k, n) ==
    LET aic == [const |-> Int2Val(2 * k), by_lnP |-> -2, by_ln_n |-> 0]
    IN  CASE criterion = "aic" -> aic
          [] criterion = "aicc" ->
                [aic EXCEPT !.const = LAdd(aic.const,
                                           LDiv(Int2Val(2 * k * (k + 1)), Int2Val(n - k - 1)))]
          [] criterion = "bic" -> [const |-> Zero, by_lnP |-> -1, by_ln_n |-> k]
          [] criterion = "negloglh" -> [const |-> Zero, by_lnP |-> -1, by_ln_n |-> 0]

C20_Returned ==
    IF ret.value.returned.type = "array"
    THEN <<ret.value.returned.states>>
    ELSE ret.value.returned.states

\* C20: decode of a single sequence returns one state sequence and decode of
\* a list of k >= 1 sequences returns k state sequences; each has one state
\* index per timestep of its input, and no state has a larger gamma at that
\* timestep than the state of that index
C20_DecodeShapeAndArgmax ==
    (pc = "trained" /\ ret.op = "decode") =>
        /\ ret.outcome = "value"
        /\ Len(C20_Returned) = Len(ret.value.X_s)
        /\ \A p \in 1..Len(ret.value.X_s) :
              LET gamma == log_likelihood(self, ret.value.X_s[p], NoLabels).gamma
                  states == C20_Returned[p]
              IN  /\ Len(states) = Len(ret.value.X_s[p])
                  /\ \A t \in 1..Len(states) :
                        /\ states[t] \in 0..(self.n_states - 1)
                        /\ \A j \in 1..self.n_states :
                              ~LLess(gamma[t][states[t] + 1], gamma[t][j])

\* decode returned for a list of two sequences, and the state of largest
\* gamma at the first timestep is not state 0
C20_DecodedList ==
    /\ pc = "trained"
    /\ ret.op = "decode"
    /\ ret.outcome = "value"
    /\ ret.value.given = "list"
    /\ Len(ret.value.X_s) = 2
    /\ C20_Returned[1][1] > 0

\* C29: as long as dequeue was never called on an empty queue, the items
\* dequeue returned are the first items enqueued, in the order of their
\* enqueue; queue.length is the number of enqueues minus the number of
\* dequeues; isQueueEmpty holds exactly when front_node is NULL
C29_FifoLengthEmpty ==
    pc = "queue" =>
        /\ Len(bw.dequeued) <= Len(bw.enqueued)
        /\ bw.dequeued = SubSeq(bw.enqueued, 1, Len(bw.dequeued))
        /\ self.queue.length = Len(bw.enqueued) - Len(bw.dequeued)
        /\ isQueueEmpty(self.queue) <=> (self.queue.front_node = NULL)

\* two different items were enqueued and both came back, and another item
\* entered the queue after a dequeue
C29_TwoItemsReturned ==
    /\ pc = "queue"
    /\ Len(bw.dequeued) = 2
    /\ bw.dequeued[1] # bw.dequeued[2]
    /\ Len(bw.enqueued) = 3
    /\ ret.op = "enqueue"
    /\ before.queue.length = 0

\* C30: dequeue on an empty queue (front_node NULL) prints 'Queue is
\* empty' and exits, has read no field of a node through the null front
\* pointer, and leaves queue.length as it was
C30_EmptyDequeueExitsCleanly ==
    (ret.op = "dequeue" /\ before.queue.front_node = NULL) =>
        /\ ret.outcome = "exit"
        /\ ret.value.printed = <<"Error in dequeue() : Queue is empty">>
        /\ ret.value.null_reads = 0
        /\ self.queue.length = before.queue.length

\* C28: in the path sample(n_samples) returns on a trained model, every
\* state is an index in 0..N-1 and every step from a state s to the next
\* state s' has transition_probs[s, s'] > 0
C28_SampledPathIsLegal ==
    (ret.op = "sample" /\ ret.outcome = "value") =>
        LET states == ret.value.states
        IN  /\ \A t \in 1..Len(states) : states[t] \in 0..(self.n_states - 1)
            /\ \A t \in 1..(Len(states) - 1) :
                   (states[t] >= 0 /\ states[t + 1] >= 0) =>
                       Sign(self.transition_probs[states[t] + 1][states[t + 1] + 1]) > 0

C25_ConvergedWithoutMStep ==
    [][(pc = "iterating" /\ pc' = "trained" /\ bw.i < call.max_n_iter) =>
          /\ self' = self
          /\ bw'.m_steps = bw.m_steps
          /\ bw'.E = loop_body(self', call.X_s, call.Y_s, call.eps, bw.old_F).E
          /\ bw'.F = GNeg(SumLog([p \in 1..Len(bw'.E) |-> bw'.E[p].lnP_f]))]_vars

\* training converged after an M-step had changed the parameters
C25_ConvergedAfterUpdate ==
    /\ pc = "trained"
    /\ bw.i < call.max_n_iter
    /\ bw.m_steps >= 1
    /\ before # self
    /\ bw.F.k = "fin"

\* C23: training terminates: for every corpus and every max_n_iter > 0 the
\* trainer runs at most max_n_iter passes over the corpus and leaves the
\* iterating state, by convergence or because max_n_iter is reached, and
\* fit returns (unless the values of the run left the modelled range)
C23_TrainingTerminates ==
    /\ [](pc = "iterating" => bw.i <= call.max_n_iter /\ bw.m_steps = bw.i)
    /\ (pc = "iterating") ~> (pc \in {"trained", "unmodelled"})

\* training ended because the largest max_n_iter was reached
C23_MaxIterationsReached ==
    /\ pc = "trained"
    /\ call.max_n_iter = MaxIter
    /\ bw.i = call.max_n_iter
    /\ bw.m_steps = MaxIter

\* C26: in every backward pass (log-space and linear-space) the last row of
\* beta is initialised first and the rows are then filled for t = T-2 down
\* to 0: the k-th iteration of the loop computes row T-1-k, and the row
\* t+1 it reads has been written before
C26_RowsFilledFromComputedSuccessor ==
    [][BackwardIteration =>
         /\ BackwardRange(call.pass, call.T)[bw.k] = call.T - 1 - bw.k
         /\ (BackwardRange(call.pass, call.T)[bw.k] + 1) \in BackwardWritten]_vars

\* C27: in the log-space E-step every pairwise posterior entry is normalised
\* by the sequence log-likelihood exactly once: on return ln_xi[t,i,j] =
\* ln_alpha[t,i] + ln_transition[i,j] + lnf[t+1,j] + ln_beta[t+1,j] - lnP_f
\* for all t in 0..T-2 and all states i, j
C27_NormalisedExactlyOnce ==
    (pc = "returned" /\ ret.op = "E_step") =>
        \A t \in 1..(Len(call.lnf) - 1), i \in 1..self.n_states, j \in 1..self.n_states :
            ret.value.ln_eta[t][i][j] =
                NanToNumLog(GSub(GAdd(GAdd(GAdd(bw.ln_alpha[t][i],
                                                self.ln_transition_probs[i][j]),
                                           call.lnf[t + 1][j]),
                                      bw.ln_beta[t + 1][j]),
                                 ret.value.lnP_f))

\* C21: within a training iteration no model parameter is written while an
\* E-step is pending: the E-step of a sequence (emission log-probability
\* plus forward-backward) writes only scratch buffers and leaves every
\* model parameter as it was; the M-step alone writes parameters
C21_EStepWritesNoParameter ==
    [][LogFitEStep => self' = self]_vars

\* a list in the opposite order
Reversed(s) == [p \in 1..Len(s) |-> s[Len(s) + 1 - p]]

\* C24: the result of an M-step (initial probabilities, transition
\* probabilities, emission parameters) is the same for every ordering of
\* the sequences of the corpus: the iteration run on the sequences, and
\* their labels, in the opposite order produces the same parameters
C24_MStepIndependentOfOrder ==
    [][(BaumWelchIteration /\ bw'.m_steps = bw.m_steps + 1 /\ Len(call.X_s) = 2) =>
          self' = loop_body(self, Reversed(call.X_s),
                            IF call.Y_s = NoLabels THEN NoLabels ELSE Reversed(call.Y_s),
                            call.eps, bw.old_F).updated]_vars

\* an M-step has changed the parameters of an object trained with labels
\* on two different sequences
C24_UpdatedFromTwoSequences ==
    /\ pc = "trained"
    /\ Len(call.X_s) = 2
    /\ call.X_s[1] # call.X_s[2]
    /\ call.Y_s # NoLabels
    /\ bw.m_steps = 1
    /\ self.initial_probs # before.initial_probs
    /\ self.initial_probs[1].k = "fin"

====
